---- MODULE Spec2Model ----
(***************************************************************************)
(* A model of typescript-common: LRUCache, Memoize, the cached object      *)
(* filter / object map wrappers, Debounce, Throttle, Once and Stopwatch.   *)
(*                                                                         *)
(* JavaScript values are written as strings: the value undefined is        *)
(* "undefined", null is "null", NaN is "NaN", the number 1 is "1" and the  *)
(* string 'a' is "'a'".  A JavaScript Map is a sequence of <<key, value>>  *)
(* pairs in insertion order, which is the order Map iterates in.           *)
(***************************************************************************)
EXTENDS Integers, Sequences, FiniteSets, TLC

VARIABLES
    lru_state,      \* "new" (no constructor call yet), "ready", "threw"
    lru_map,        \* LRUCache._map
    lru_maxSize,    \* LRUCache._maxSize
    lru_order,      \* history: keys of the current entries, least recently touched first
    lru_pre,        \* history: _map and lru_order before the last call
    lru_op,         \* history: the last call, its arguments and what it returned
    lru_sinceClear  \* history: whether an entry was evicted since the last clear

lruVars == <<lru_state, lru_map, lru_maxSize, lru_order, lru_pre, lru_op, lru_sinceClear>>

VARIABLES
    memo_state,         \* "new" (Memoize not called yet) or "ready"
    memo_keyFn,         \* whether a keyFn was passed to Memoize
    memo_maxCacheSize,  \* the maxCacheSize passed to Memoize
    memo_cache,         \* the closure's cache: Map<string, ReturnType<T>>
    memo_order,         \* history: keys of the current entries, least recently used first
    memo_computed,      \* history: per key, the invocations of fn since its entry was last absent
    memo_pre,           \* history: cache and memo_order before the last call
    memo_op             \* history: the last call of the memoized function

memoVars == <<memo_state, memo_keyFn, memo_maxCacheSize, memo_cache, memo_order,
              memo_computed, memo_pre, memo_op>>

VARIABLES
    fc_state,               \* "new" (ObjectFilterCached not called yet) or "ready"
    fc_options,             \* the options of ObjectFilterCached, defaults filled in
    fc_cache,               \* the closure's cache: Map<string, Map<string, boolean>>
    fc_totalCachedEntries,  \* the closure's totalCachedEntries
    fc_op                   \* history: the last call of the cached filter function, and
                            \* what ObjectFilter returns on that call's arguments

filterVars == <<fc_state, fc_options, fc_cache, fc_totalCachedEntries, fc_op>>

VARIABLES
    mc_state,               \* "new" (MapObjectCached not called yet) or "ready"
    mc_maxCacheSize,        \* the maxCacheSize option of MapObjectCached
    mc_cache,               \* the closure's cache: Map<string, Map<string, Record>>
    mc_totalCachedEntries,  \* the closure's totalCachedEntries
    mc_op                   \* history: the last call of the cached map function, and
                            \* what MapObject returns on that call's arguments

mapVars == <<mc_state, mc_maxCacheSize, mc_cache, mc_totalCachedEntries, mc_op>>

VARIABLES
    deb_state,    \* "new" (Debounce not called yet) or "ready"
    deb_ms,       \* the ms passed to Debounce
    deb_timer,    \* the closure's timer: a timer id, or 0 for undefined
    deb_timers,   \* the event loop's timers that are set and neither fired nor cleared
    deb_nextId,   \* the id the next setTimeout returns
    deb_now,      \* the clock, in milliseconds
    deb_calls,    \* history: the calls of the debounced function and what became of each
    deb_fn,       \* history: the invocations of fn
    deb_cancel    \* history: <<invocations of fn so far>> at the last cancel() that no
                  \* call has followed, <<>> otherwise

debVars == <<deb_state, deb_ms, deb_timer, deb_timers, deb_nextId, deb_now, deb_calls,
             deb_fn, deb_cancel>>

VARIABLES
    thr_state,    \* "new" (Throttle not called yet) or "ready"
    thr_ms,       \* the ms passed to Throttle
    thr_lastCall, \* the closure's lastCall
    thr_timer,    \* the closure's timer: a timer id, or 0 for undefined
    thr_timers,   \* the event loop's timers that are set and neither fired nor cleared
    thr_nextId,   \* the id the next setTimeout returns
    thr_now,      \* the clock Date.now() reads, in milliseconds
    thr_calls,    \* history: the number of calls of the throttled function
    thr_lastArgs, \* history: the arguments of the latest call of the throttled function
    thr_fn        \* history: the invocations of fn

thrVars == <<thr_state, thr_ms, thr_lastCall, thr_timer, thr_timers, thr_nextId, thr_now,
             thr_calls, thr_lastArgs, thr_fn>>

VARIABLES
    once_state,   \* "new" (Once not called yet) or "ready"
    once_called,  \* the closure's called
    once_result,  \* the closure's result (undefined until assigned)
    once_counter, \* the counter fn increments, as the fn of the tests does
    once_fn,      \* history: the arguments of the invocations of fn
    once_log      \* history: the calls of the wrapped function and their outcomes

onceVars == <<once_state, once_called, once_result, once_counter, once_fn, once_log>>

VARIABLES
    sw_state,     \* "new" (no constructor call yet) or "ready"
    sw_times,     \* Stopwatch._times: the timestamps of the entries, in order
    sw_pausedAt,  \* Stopwatch._pausedAt: <<>> for null, <<t>> for the number t
    sw_now,       \* the clock Date.now() reads, in milliseconds
    sw_frozenBy,  \* history: what froze a running stopwatch: "Pause", "Stop" or "none"
    sw_stop,      \* history: <<the timestamp of the Stop() that stopped the running
                  \* stopwatch>>, until a Resume() or Reset(); <<>> otherwise
    sw_resume     \* history: <<Elapsed just before, the time of>> the Resume() that
                  \* followed a Pause() of the running stopwatch, until the next
                  \* Pause(), Stop() or Reset(); <<>> otherwise

swVars == <<sw_state, sw_times, sw_pausedAt, sw_now, sw_frozenBy, sw_stop, sw_resume>>

\* The functions on structural values (src/src/asserts/index.ts and
\* src/src/object): each call is recorded with its arguments and its outcome.
VARIABLES
    eq_op,        \* the last ObjectEquals / ObjectHash call on a pair of values
    ob_op         \* the last call of a function of src/src/object on its arguments

objVars == <<eq_op, ob_op>>

vars == <<lruVars, memoVars, filterVars, mapVars, debVars, thrVars, onceVars, swVars,
          objVars>>

----------------------------------------------------------------------------
(* Bounds and input domains *)

MaxCapacity == 2

undefined == "undefined"

\* K of LRUCache<K, V> is unconstrained: undefined is a legal Map key.
LruKeys == {undefined, "'a'", "'b'"}

\* V of LRUCache<K, V> is unconstrained too.
LruValues == {undefined, "1", "2"}

ConstructorArgs == (-1) .. MaxCapacity

MaxMemoSize == 2

MaxId == 2

MaxTag == 1

MemoSizes == 0 .. MaxMemoSize

\* The arguments a memoized function is called with: objects {id, tag}.
MemoArgs == [id : 0 .. MaxId, tag : 0 .. MaxTag]

----------------------------------------------------------------------------
(* JavaScript Map *)

MapKeys(m) == {m[i][1] : i \in 1 .. Len(m)}

MapHas(m, key) == key \in MapKeys(m)

MapGet(m, key) ==
    IF MapHas(m, key)
    THEN LET i == CHOOSE j \in 1 .. Len(m) : m[j][1] = key IN m[i][2]
    ELSE undefined

MapDelete(m, key) == SelectSeq(m, LAMBDA e : e[1] # key)

\* Map.set keeps the position of a key that is present and appends a new one.
MapSet(m, key, value) ==
    IF MapHas(m, key)
    THEN [i \in 1 .. Len(m) |-> IF m[i][1] = key THEN <<key, value>> ELSE m[i]]
    ELSE Append(m, <<key, value>>)

\* map.keys().next().value: undefined when the map is empty.
MapFirstKey(m) == IF Len(m) = 0 THEN undefined ELSE m[1][1]

----------------------------------------------------------------------------
(* LRUCache *)

LRUCache_constructor_offByOne(maxSize) ==
    IF maxSize < 0
    THEN [threw |-> TRUE, map |-> <<>>, maxSize |-> 0]
    ELSE [threw |-> FALSE, map |-> <<>>, maxSize |-> maxSize]

\* constructor(maxSize): throws when maxSize < 1.
LRUCache_constructor(maxSize) ==
    IF maxSize < 1
    THEN [threw |-> TRUE, map |-> <<>>, maxSize |-> 0]
    ELSE [threw |-> FALSE, map |-> <<>>, maxSize |-> maxSize]

LRUCache_size(m) == Len(m)

LRUCache_get_noGuard(m, key) ==
    LET value == MapGet(m, key) IN
    [map |-> MapSet(MapDelete(m, key), key, value), ret |-> value]

LRUCache_get(m, key) ==
    LET value == MapGet(m, key) IN
    [map |-> IF value # undefined
             THEN MapSet(MapDelete(m, key), key, value)
             ELSE m,
     ret |-> value]

LRUCache_set_evictAlways(m, maxSize, key, value) ==
    LET firstKey == MapFirstKey(m)
        m1 == IF Len(m) >= maxSize
              THEN (IF firstKey # undefined THEN MapDelete(m, firstKey) ELSE m)
              ELSE m
    IN  MapSet(MapDelete(m1, key), key, value)

LRUCache_set(m, maxSize, key, value) ==
    LET firstKey == MapFirstKey(m)
        m1 == IF MapHas(m, key)
              THEN MapDelete(m, key)
              ELSE IF Len(m) >= maxSize
                   THEN (IF firstKey # undefined THEN MapDelete(m, firstKey) ELSE m)
                   ELSE m
    IN  MapSet(m1, key, value)

LRUCache_clear(m) == <<>>

----------------------------------------------------------------------------
(* History: the order of the current entries by their most recent touch,   *)
(* a touch being a set of the key or a get of a key that is present.       *)

SeqRemove(s, x) == SelectSeq(s, LAMBDA e : e # x)

Touch(order, key, keysNow) ==
    LET kept == SelectSeq(SeqRemove(order, key), LAMBDA e : e \in keysNow)
    IN  IF key \in keysNow THEN Append(kept, key) ELSE kept

NoOp == [name |-> "none", key |-> undefined, value |-> undefined, arg |-> 0, ret |-> undefined]

LruInit ==
    /\ lru_state = "new"
    /\ lru_map = <<>>
    /\ lru_maxSize = 0
    /\ lru_order = <<>>
    /\ lru_pre = [map |-> <<>>, order |-> <<>>]
    /\ lru_op = NoOp
    /\ lru_sinceClear = "no clear"

Construct(maxSize) ==
    /\ lru_state # "ready"
    /\ LET r == LRUCache_constructor(maxSize) IN
        /\ lru_state' = IF r.threw THEN "threw" ELSE "ready"
        /\ lru_map' = r.map
        /\ lru_maxSize' = r.maxSize
    /\ lru_order' = <<>>
    /\ lru_pre' = [map |-> <<>>, order |-> <<>>]
    /\ lru_op' = [NoOp EXCEPT !.name = "constructor", !.arg = maxSize]
    /\ lru_sinceClear' = "no clear"
    /\ UNCHANGED <<memoVars, filterVars, mapVars, debVars, thrVars,
                   onceVars, swVars, objVars>>

Get(key) ==
    /\ lru_state = "ready"
    /\ LET r == LRUCache_get(lru_map, key) IN
        /\ lru_map' = r.map
        /\ lru_op' = [NoOp EXCEPT !.name = "get", !.key = key, !.ret = r.ret]
        /\ lru_order' = IF MapHas(lru_map, key)
                        THEN Touch(lru_order, key, MapKeys(r.map))
                        ELSE lru_order
    /\ lru_pre' = [map |-> lru_map, order |-> lru_order]
    /\ UNCHANGED <<lru_state, lru_maxSize, lru_sinceClear>>
    /\ UNCHANGED <<memoVars, filterVars, mapVars, debVars, thrVars,
                   onceVars, swVars, objVars>>

Set(key, value) ==
    /\ lru_state = "ready"
    /\ LET m == LRUCache_set(lru_map, lru_maxSize, key, value) IN
        /\ lru_map' = m
        /\ lru_order' = Touch(lru_order, key, MapKeys(m))
        /\ lru_sinceClear' = IF lru_sinceClear = "nothing evicted"
                                 /\ MapKeys(lru_map) \ MapKeys(m) # {}
                              THEN "evicted"
                              ELSE lru_sinceClear
    /\ lru_op' = [NoOp EXCEPT !.name = "set", !.key = key, !.value = value]
    /\ lru_pre' = [map |-> lru_map, order |-> lru_order]
    /\ UNCHANGED <<lru_state, lru_maxSize>>
    /\ UNCHANGED <<memoVars, filterVars, mapVars, debVars, thrVars,
                   onceVars, swVars, objVars>>

Clear ==
    /\ lru_state = "ready"
    /\ lru_map' = LRUCache_clear(lru_map)
    /\ lru_order' = <<>>
    /\ lru_op' = [NoOp EXCEPT !.name = "clear"]
    /\ lru_sinceClear' = "nothing evicted"
    /\ lru_pre' = [map |-> lru_map, order |-> lru_order]
    /\ UNCHANGED <<lru_state, lru_maxSize>>
    /\ UNCHANGED <<memoVars, filterVars, mapVars, debVars, thrVars,
                   onceVars, swVars, objVars>>

----------------------------------------------------------------------------
(* Memoize *)

\* The wrapped function of the tests: fn(obj) = obj.id * 10.  It is pure.
fn(obj) == obj.id * 10

\* The keyFn of the tests: (obj) => String(obj.id).
keyFn(obj) == ToString(obj.id)

\* JSON.stringify(args) of the one-element argument list [obj].
JSONstringifyArgs(obj) ==
    "[{\"id\":" \o ToString(obj.id) \o ",\"tag\":" \o ToString(obj.tag) \o "}]"

MemoKey(useKeyFn, obj) == IF useKeyFn THEN keyFn(obj) ELSE JSONstringifyArgs(obj)

\* One call of memoized(obj): the cache after it, what it returns and whether
\* it invoked fn.
memoized_truthyHit(cache, useKeyFn, maxCacheSize, obj) ==
    LET key == MemoKey(useKeyFn, obj) IN
    IF MapHas(cache, key) /\ MapGet(cache, key) # 0
    THEN [cache |-> cache, ret |-> MapGet(cache, key), invoked |-> FALSE]
    ELSE LET result == fn(obj)
             oldestKey == MapFirstKey(cache)
             c1 == IF Len(cache) >= maxCacheSize
                   THEN MapDelete(cache, oldestKey)
                   ELSE cache
         IN  [cache |-> MapSet(c1, key, result), ret |-> result, invoked |-> TRUE]

memoized(cache, useKeyFn, maxCacheSize, obj) ==
    LET key == MemoKey(useKeyFn, obj) IN
    IF MapHas(cache, key)
    THEN [cache |-> cache, ret |-> MapGet(cache, key), invoked |-> FALSE]
    ELSE LET result == fn(obj)
             oldestKey == MapFirstKey(cache)
             c1 == IF Len(cache) >= maxCacheSize
                   THEN MapDelete(cache, oldestKey)
                   ELSE cache
         IN  [cache |-> MapSet(c1, key, result), ret |-> result, invoked |-> TRUE]

MemoNoOp == [name |-> "none", obj |-> [id |-> 0, tag |-> 0], key |-> "", ret |-> 0,
             invoked |-> FALSE]

MemoInit ==
    /\ memo_state = "new"
    /\ memo_keyFn = FALSE
    /\ memo_maxCacheSize = 0
    /\ memo_cache = <<>>
    /\ memo_order = <<>>
    /\ memo_computed = [k \in {} |-> 0]
    /\ memo_pre = [cache |-> <<>>, order |-> <<>>]
    /\ memo_op = MemoNoOp

\* Memoize(fn, keyFn?, maxCacheSize)
Memoize(useKeyFn, maxCacheSize) ==
    /\ memo_state = "new"
    /\ memo_state' = "ready"
    /\ memo_keyFn' = useKeyFn
    /\ memo_maxCacheSize' = maxCacheSize
    /\ memo_cache' = <<>>
    /\ UNCHANGED <<memo_order, memo_computed, memo_pre, memo_op>>
    /\ UNCHANGED <<lruVars, filterVars, mapVars, debVars, thrVars,
                   onceVars, swVars, objVars>>

Computed(key) == IF key \in DOMAIN memo_computed THEN memo_computed[key] ELSE 0

MemoizedCall(obj) ==
    /\ memo_state = "ready"
    /\ LET key == MemoKey(memo_keyFn, obj)
           r == memoized(memo_cache, memo_keyFn, memo_maxCacheSize, obj)
       IN
        /\ memo_cache' = r.cache
        /\ memo_op' = [name |-> "call", obj |-> obj, key |-> key, ret |-> r.ret,
                       invoked |-> r.invoked]
        /\ memo_order' = Touch(memo_order, key, MapKeys(r.cache))
        /\ memo_computed' =
              [k \in MapKeys(r.cache) |->
                  IF k = key
                  THEN (IF MapHas(memo_cache, k) THEN Computed(k) ELSE 0)
                       + (IF r.invoked THEN 1 ELSE 0)
                  ELSE Computed(k)]
    /\ memo_pre' = [cache |-> memo_cache, order |-> memo_order]
    /\ UNCHANGED <<memo_state, memo_keyFn, memo_maxCacheSize>>
    /\ UNCHANGED <<lruVars, filterVars, mapVars, debVars, thrVars,
                   onceVars, swVars, objVars>>

----------------------------------------------------------------------------
(* JavaScript values of the object helpers.  An object is the sequence of  *)
(* its own enumerable properties, <<key, value>> pairs in insertion order;  *)
(* the property value SelfRef is a reference to the object that holds it,   *)
(* which makes that object circular.                                        *)

null == "null"

NaN == "NaN"

SelfRef == "<this object>"

PropValues == {null, NaN, "'x'", "'X'", SelfRef}

\* An argument of a call: an object with its properties, or null.
Obj(props) == [kind |-> "object", props |-> props]

NullArg == [kind |-> "null", props |-> <<>>]

\* The objects {a: v}.
Objects == {Obj(<< <<"a", v>> >>) : v \in PropValues}

\* x && typeof x === 'object'
IsObject(x) == x.kind = "object"

\* The cursors and filters of the calls: an object, or null, which fails the
\* `!cursor || typeof cursor !== 'object'` test.
Cursors == Objects \cup {NullArg}

\* The filters are the empty filter {} and {a: v}, v any value but 'X'.
Filters == ((Objects \ {Obj(<< <<"a", "'X'">> >>)}) \cup {Obj(<<>>)}) \cup {NullArg}

MaxCacheSize == 2

\* A cache size and cursors {a: 1} .. {a: 6} that let one bucket grow past
\* five entries, where 20% of its size is more than one entry.
SweepCacheSize == 6

NumberObjects == {Obj(<< <<"a", n>> >>) : n \in {"1", "2", "3", "4", "5", "6"}}

\* The calls of the large-bucket runs: every cursor under the mapper's own
\* text as key, two of them also under the mapperKey 'k'.
SweepCalls ==
    (NumberObjects \X {undefined})
        \cup ({Obj(<< <<"a", n>> >>) : n \in {"1", "2"}} \X {"'k'"})

\* The defaults, or deep equality with case-insensitive strings.
FilterOptions ==
    {[maxCacheSize |-> m, useDeepEqual |-> b, caseInsensitiveStrings |-> b,
      validatePaths |-> TRUE] : m \in 0 .. MaxCacheSize, b \in BOOLEAN}

typeof(v) ==
    IF v = undefined THEN "undefined"
    ELSE IF v \in {null, SelfRef} THEN "object"
    ELSE IF v \in {"'x'", "'X'"} THEN "string"
    ELSE "number"

toLowerCase(v) == IF v = "'X'" THEN "'x'" ELSE v

\* a === b, for a property value of one object and one of another object.
StrictEquals(a, b) == a = b /\ a \notin {NaN, SelfRef}

\* ObjectEquals on these values: no two distinct objects are compared.
ObjectEquals(a, b) ==
    IF StrictEquals(a, b) THEN TRUE
    ELSE IF a = NaN /\ b = NaN THEN TRUE
    ELSE FALSE

----------------------------------------------------------------------------
(* ObjectHash *)

ObjectHasCircularReference(obj) ==
    IsObject(obj) /\ \E i \in 1 .. Len(obj.props) : obj.props[i][2] = SelfRef

\* JSON.stringify of a property value: NaN is written as null.
JSONvalue(v) ==
    IF v \in {null, NaN} THEN "null"
    ELSE IF v = "'x'" THEN "\"x\""
    ELSE IF v = "'X'" THEN "\"X\""
    ELSE v

RECURSIVE JSONmembers(_)
JSONmembers(props) ==
    IF Len(props) = 0 THEN ""
    ELSE "\"" \o props[1][1] \o "\":" \o JSONvalue(props[1][2])
         \o (IF Len(props) > 1 THEN "," ELSE "") \o JSONmembers(Tail(props))

\* JSON.stringify of an object without cycles: a property whose value is
\* undefined is left out.
JSONstringify(obj) ==
    IF ~IsObject(obj) THEN "null"
    ELSE "{" \o JSONmembers(SelectSeq(obj.props, LAMBDA e : e[2] # undefined)) \o "}"

\* createHash('sha256').update(text).digest('base64'), then substring(0, 16)
\* in the callers: taken to be injective on the texts of the model.
SHA256Base64(text) == "sha256(" \o text \o ")"

ObjectHash(obj) ==
    IF ObjectHasCircularReference(obj)
    THEN [threw |-> TRUE, hash |-> ""]
    ELSE [threw |-> FALSE, hash |-> SHA256Base64(JSONstringify(obj))]

\* ObjectHash of every argument of the model, computed once.
ObjectHashOf == [obj \in Cursors \cup Filters \cup NumberObjects |-> ObjectHash(obj)]

----------------------------------------------------------------------------
(* ObjectFilter, for filter keys without a dot *)

objectCompareValues(objValue, filterValue, caseInsensitiveStrings, useDeepEqual) ==
    IF caseInsensitiveStrings /\ typeof(objValue) = "string" /\ typeof(filterValue) = "string"
    THEN toLowerCase(objValue) = toLowerCase(filterValue)
    ELSE IF objValue = NaN /\ filterValue = NaN THEN TRUE
    ELSE IF useDeepEqual THEN ObjectEquals(objValue, filterValue)
    ELSE StrictEquals(objValue, filterValue)

objectDeepComparison(objValue, filterValue, caseInsensitiveStrings) ==
    IF caseInsensitiveStrings /\ typeof(objValue) = "string" /\ typeof(filterValue) = "string"
    THEN toLowerCase(objValue) = toLowerCase(filterValue)
    ELSE ObjectEquals(objValue, filterValue)

\* The object's own property `key` (undefined when it has none).
Prop(object, key) == MapGet(object.props, key)

\* key in object
HasProp(object, key) == MapHas(object.props, key)

ObjectFilter(object, filter, options) ==
    \A i \in 1 .. Len(filter.props) :
        LET key == filter.props[i][1]
            filterValue == filter.props[i][2]
            objValue == Prop(object, key)
        IN  /\ HasProp(object, key)
            /\ IF options.useDeepEqual
               THEN objectDeepComparison(objValue, filterValue, options.caseInsensitiveStrings)
               ELSE objectCompareValues(objValue, filterValue,
                                        options.caseInsensitiveStrings, options.useDeepEqual)

----------------------------------------------------------------------------
(* The two-level cache of ObjectFilterCached and MapObjectCached: a Map    *)
(* from the operation's key to a Map from the object's key to the result.  *)

CACHE_EVICTION_DIVISOR == 5

EntriesToRemove_floor(size) == size \div CACHE_EVICTION_DIVISOR

\* Math.ceil(size * CACHE_EVICTION_PERCENTAGE), the percentage being 0.2: in
\* double arithmetic size * 0.2 rounds to the exact fifth for every size up to
\* two million, so the ceiling is the integer one.
EntriesToRemove(size) == (size + CACHE_EVICTION_DIVISOR - 1) \div CACHE_EVICTION_DIVISOR

\* The first bucket, in the outer Map's order, that is larger than all
\* before it and as large as all after it; 0 when every bucket is empty.
LargestIndex(cache) ==
    IF \A i \in 1 .. Len(cache) : Len(cache[i][2]) = 0
    THEN 0
    ELSE CHOOSE i \in 1 .. Len(cache) :
            /\ \A j \in 1 .. Len(cache) : Len(cache[j][2]) <= Len(cache[i][2])
            /\ \A j \in 1 .. (i - 1) : Len(cache[j][2]) < Len(cache[i][2])

clearOldestEntries_keepsCounter(cache, totalCachedEntries) ==
    LET li == LargestIndex(cache) IN
    IF Len(cache) = 0 \/ li = 0
    THEN [cache |-> cache, totalCachedEntries |-> totalCachedEntries]
    ELSE LET largestCacheKey == cache[li][1]
             largestCache == cache[li][2]
             largestSize == Len(largestCache)
             entriesToRemove == EntriesToRemove(largestSize)
             removed == IF entriesToRemove < 1 THEN 1 ELSE entriesToRemove
             rest == SubSeq(largestCache, removed + 1, largestSize)
         IN  [cache |-> IF Len(rest) = 0
                        THEN MapDelete(cache, largestCacheKey)
                        ELSE MapSet(cache, largestCacheKey, rest),
              totalCachedEntries |-> totalCachedEntries]

clearOldestEntries(cache, totalCachedEntries) ==
    LET li == LargestIndex(cache) IN
    IF Len(cache) = 0 \/ li = 0
    THEN [cache |-> cache, totalCachedEntries |-> totalCachedEntries]
    ELSE LET largestCacheKey == cache[li][1]
             largestCache == cache[li][2]
             largestSize == Len(largestCache)
             entriesToRemove == EntriesToRemove(largestSize)
             removed == IF entriesToRemove < 1 THEN 1 ELSE entriesToRemove
             rest == SubSeq(largestCache, removed + 1, largestSize)
         IN  [cache |-> IF Len(rest) = 0
                        THEN MapDelete(cache, largestCacheKey)
                        ELSE MapSet(cache, largestCacheKey, rest),
              totalCachedEntries |-> totalCachedEntries - removed]

cachedLookup_noHit(cache, totalCachedEntries, maxCacheSize, operationKey, cursor, computed) ==
    LET cache1 == IF MapHas(cache, operationKey)
                  THEN cache
                  ELSE MapSet(cache, operationKey, <<>>)
        objectCache == MapGet(cache1, operationKey)
        h == ObjectHashOf[cursor]
        objectKey == h.hash
    IN  IF h.threw
        THEN [cache |-> cache1, totalCachedEntries |-> totalCachedEntries,
              threw |-> FALSE, ret |-> computed, path |-> "unhashable"]
        ELSE LET cache2 == MapSet(cache1, operationKey, MapSet(objectCache, objectKey, computed))
                 total2 == totalCachedEntries + 1
                 swept == IF total2 > maxCacheSize
                          THEN clearOldestEntries(cache2, total2)
                          ELSE [cache |-> cache2, totalCachedEntries |-> total2]
             IN  [cache |-> swept.cache, totalCachedEntries |-> swept.totalCachedEntries,
                  threw |-> FALSE, ret |-> computed, path |-> "miss"]

\* The steps the two wrappers share once the operation's key is known:
\* `computed` is the result of the uncached computation on the call's arguments.
cachedLookup(cache, totalCachedEntries, maxCacheSize, operationKey, cursor, computed) ==
    LET cache1 == IF MapHas(cache, operationKey)
                  THEN cache
                  ELSE MapSet(cache, operationKey, <<>>)
        objectCache == MapGet(cache1, operationKey)
        h == ObjectHashOf[cursor]
        objectKey == h.hash
    IN  IF h.threw
        THEN [cache |-> cache1, totalCachedEntries |-> totalCachedEntries,
              threw |-> FALSE, ret |-> computed, path |-> "unhashable"]
        ELSE IF MapHas(objectCache, objectKey)
        THEN [cache |-> cache1, totalCachedEntries |-> totalCachedEntries,
              threw |-> FALSE, ret |-> MapGet(objectCache, objectKey), path |-> "hit"]
        ELSE LET cache2 == MapSet(cache1, operationKey, MapSet(objectCache, objectKey, computed))
                 total2 == totalCachedEntries + 1
                 swept == IF total2 > maxCacheSize
                          THEN clearOldestEntries(cache2, total2)
                          ELSE [cache |-> cache2, totalCachedEntries |-> total2]
             IN  [cache |-> swept.cache, totalCachedEntries |-> swept.totalCachedEntries,
                  threw |-> FALSE, ret |-> computed, path |-> "miss"]

----------------------------------------------------------------------------
(* ObjectFilterCached *)

\* One call of the function ObjectFilterCached(options) returns.
cachedFilter(cache, totalCachedEntries, options, cursor, filter) ==
    IF ~IsObject(cursor)
    THEN [cache |-> cache, totalCachedEntries |-> totalCachedEntries,
          threw |-> FALSE, ret |-> FALSE, path |-> "invalid cursor"]
    ELSE IF ~IsObject(filter)
    THEN [cache |-> cache, totalCachedEntries |-> totalCachedEntries,
          threw |-> FALSE, ret |-> TRUE, path |-> "invalid filter"]
    ELSE LET fh == ObjectHashOf[filter] IN
         IF fh.threw
         THEN [cache |-> cache, totalCachedEntries |-> totalCachedEntries,
               threw |-> TRUE, ret |-> FALSE, path |-> "filter unhashable"]
         ELSE cachedLookup(cache, totalCachedEntries, options.maxCacheSize, fh.hash,
                           cursor, ObjectFilter(cursor, filter, options))

FilterNoOp == [name |-> "none", threw |-> FALSE, ret |-> FALSE, path |-> "none",
               uncached |-> FALSE]

FilterInit ==
    /\ fc_state = "new"
    /\ fc_options = [maxCacheSize |-> 0, useDeepEqual |-> FALSE,
                     caseInsensitiveStrings |-> FALSE, validatePaths |-> TRUE]
    /\ fc_cache = <<>>
    /\ fc_totalCachedEntries = 0
    /\ fc_op = FilterNoOp

\* ObjectFilterCached(options)
ObjectFilterCached(options) ==
    /\ fc_state = "new"
    /\ fc_state' = "ready"
    /\ fc_options' = options
    /\ fc_cache' = <<>>
    /\ fc_totalCachedEntries' = 0
    /\ UNCHANGED fc_op
    /\ UNCHANGED <<lruVars, memoVars, mapVars, debVars, thrVars,
                   onceVars, swVars, objVars>>

CachedFilterCall(cursor, filter) ==
    /\ fc_state = "ready"
    /\ \E r \in {cachedFilter(fc_cache, fc_totalCachedEntries, fc_options, cursor, filter)} :
        /\ fc_cache' = r.cache
        /\ fc_totalCachedEntries' = r.totalCachedEntries
        /\ fc_op' = [name |-> "call", threw |-> r.threw, ret |-> r.ret, path |-> r.path,
                     uncached |-> IF IsObject(cursor) /\ IsObject(filter)
                                  THEN ObjectFilter(cursor, filter, fc_options)
                                  ELSE FALSE]
    /\ UNCHANGED <<fc_state, fc_options>>
    /\ UNCHANGED <<lruVars, memoVars, mapVars, debVars, thrVars,
                   onceVars, swVars, objVars>>

----------------------------------------------------------------------------
(* MapObject and MapObjectCached *)

\* In a result of MapObject, the property value that is a reference to the
\* cursor of the call.
CursorRef == "<the cursor>"

\* Two pure mappers, named by their source text, which is mapper.toString().
Mappers == {"(_, v) => v", "(_, v) => typeof v"}

\* mapper(key, value), the value being a property of the cursor.
ApplyMapper(mapper, key, value) ==
    IF mapper = "(_, v) => v"
    THEN (IF value = SelfRef THEN CursorRef ELSE value)
    ELSE "'" \o typeof(value) \o "'"

MapObject(obj, mapper) ==
    IF ~IsObject(obj)
    THEN <<>>
    ELSE [i \in 1 .. Len(obj.props) |->
            <<obj.props[i][1], ApplyMapper(mapper, obj.props[i][1], obj.props[i][2])>>]

\* The mapperKey argument: left out (undefined), or the string 'k'.
MapperKeys == {undefined, "'k'"}

\* One call of the function MapObjectCached(options) returns.
cachedMap(cache, totalCachedEntries, maxCacheSize, cursor, mapper, mapperKey) ==
    IF ~IsObject(cursor)
    THEN [cache |-> cache, totalCachedEntries |-> totalCachedEntries,
          threw |-> FALSE, ret |-> <<>>, path |-> "invalid cursor"]
    ELSE LET resolvedMapperKey == IF mapperKey # undefined THEN mapperKey ELSE mapper
         IN  cachedLookup(cache, totalCachedEntries, maxCacheSize, resolvedMapperKey,
                          cursor, MapObject(cursor, mapper))

MapNoOp == [name |-> "none", threw |-> FALSE, ret |-> <<>>, path |-> "none",
            uncached |-> <<>>, mapperCalls |-> 0, had |-> FALSE, stored |-> <<>>,
            removed |-> 0]

\* The entries of the bucket of operation key k, none when there is no bucket.
Bucket(cache, k) == IF MapHas(cache, k) THEN MapGet(cache, k) ELSE <<>>

ResolvedMapperKey(mapper, mapperKey) == IF mapperKey # undefined THEN mapperKey ELSE mapper

\* The number of entries in all buckets together.
RECURSIVE TotalEntries(_)
TotalEntries(cache) ==
    IF Len(cache) = 0 THEN 0 ELSE Len(cache[1][2]) + TotalEntries(Tail(cache))

\* History: the result stored, before the call, under the call's mapper key
\* and the hash of its cursor.
StoredBefore(cache, cursor, mapper, mapperKey) ==
    LET h == ObjectHashOf[cursor]
        bucket == Bucket(cache, ResolvedMapperKey(mapper, mapperKey))
        had == IsObject(cursor) /\ ~h.threw /\ MapHas(bucket, h.hash)
    IN  [had |-> had, stored |-> IF had THEN MapGet(bucket, h.hash) ELSE <<>>]

MapInit ==
    /\ mc_state = "new"
    /\ mc_maxCacheSize = 0
    /\ mc_cache = <<>>
    /\ mc_totalCachedEntries = 0
    /\ mc_op = MapNoOp

\* MapObjectCached(options)
MapObjectCached(maxCacheSize) ==
    /\ mc_state = "new"
    /\ mc_state' = "ready"
    /\ mc_maxCacheSize' = maxCacheSize
    /\ mc_cache' = <<>>
    /\ mc_totalCachedEntries' = 0
    /\ UNCHANGED mc_op
    /\ UNCHANGED <<lruVars, memoVars, filterVars, debVars, thrVars,
                   onceVars, swVars, objVars>>

CachedMapCall(cursor, mapper, mapperKey) ==
    /\ mc_state = "ready"
    /\ \E r \in {cachedMap(mc_cache, mc_totalCachedEntries, mc_maxCacheSize,
                           cursor, mapper, mapperKey)},
          before \in {StoredBefore(mc_cache, cursor, mapper, mapperKey)} :
        /\ mc_cache' = r.cache
        /\ mc_totalCachedEntries' = r.totalCachedEntries
        /\ mc_op' = [name |-> "call", threw |-> r.threw, ret |-> r.ret, path |-> r.path,
                     uncached |-> MapObject(cursor, mapper),
                     mapperCalls |-> IF r.path \in {"miss", "unhashable"}
                                     THEN Len(cursor.props) ELSE 0,
                     had |-> before.had,
                     stored |-> before.stored,
                     removed |-> TotalEntries(mc_cache) + (IF r.path = "miss" THEN 1 ELSE 0)
                                    - TotalEntries(r.cache)]
    /\ UNCHANGED <<mc_state, mc_maxCacheSize>>
    /\ UNCHANGED <<lruVars, memoVars, filterVars, debVars, thrVars,
                   onceVars, swVars, objVars>>

----------------------------------------------------------------------------
(* Timers.  setTimeout(callback, delay) returns a new id and the callback   *)
(* runs once delay milliseconds have passed, unless clearTimeout(id) came   *)
(* first.  The event loop is idle between the events of the model, so that  *)
(* the clock does not pass the time a timer is due at while it is set.      *)

MaxDelay == 2

MaxTime == 4

MaxCalls == 3

\* The arguments the debounced and the throttled function are called with.
CallArgs == {"'a'", "'b'"}

\* clearTimeout(id): no effect when id is undefined or names no set timer.
clearTimeout(timers, id) == {t \in timers : t.id # id}

\* setTimeout(() => ..., delay) at `now`, by call number `call` with `args`.
setTimeout(timers, id, now, delay, args, call) ==
    timers \cup {[id |-> id, due |-> now + delay, args |-> args, call |-> call]}

----------------------------------------------------------------------------
(* Debounce *)

debounced_noClear(timer, timers, nextId, now, ms, args, call) ==
    [timer |-> nextId,
     timers |-> setTimeout(timers, nextId, now, ms, args, call),
     nextId |-> nextId + 1]

\* debounced(...args)
debounced(timer, timers, nextId, now, ms, args, call) ==
    [timer |-> nextId,
     timers |-> setTimeout(clearTimeout(timers, timer), nextId, now, ms, args, call),
     nextId |-> nextId + 1]

debounced_cancel_keepsTimeout(timer, timers) ==
    [timer |-> 0, timers |-> timers]

\* debounced.cancel()
debounced_cancel(timer, timers) ==
    [timer |-> 0, timers |-> clearTimeout(timers, timer)]

DebounceInit ==
    /\ deb_state = "new"
    /\ deb_ms = 0
    /\ deb_timer = 0
    /\ deb_timers = {}
    /\ deb_nextId = 1
    /\ deb_now = 0
    /\ deb_calls = <<>>
    /\ deb_fn = <<>>
    /\ deb_cancel = <<>>

\* Debounce(fn, ms)
Debounce(ms) ==
    /\ deb_state = "new"
    /\ deb_state' = "ready"
    /\ deb_ms' = ms
    /\ deb_timer' = 0
    /\ UNCHANGED <<deb_timers, deb_nextId, deb_now, deb_calls, deb_fn, deb_cancel>>
    /\ UNCHANGED <<lruVars, memoVars, filterVars, mapVars, thrVars,
                   onceVars, swVars, objVars>>

\* History: the latest call, if fn was not invoked for it yet, ends as `status`.
EndLatest(calls, status, now) ==
    [i \in 1 .. Len(calls) |->
        IF i = Len(calls) /\ calls[i].status = "pending"
        THEN [calls[i] EXCEPT !.status = status, !.endAt = now]
        ELSE calls[i]]

DebouncedCall(args) ==
    /\ deb_state = "ready"
    /\ Len(deb_calls) < MaxCalls
    /\ LET r == debounced(deb_timer, deb_timers, deb_nextId, deb_now, deb_ms, args,
                          Len(deb_calls) + 1)
       IN  /\ deb_timer' = r.timer
           /\ deb_timers' = r.timers
           /\ deb_nextId' = r.nextId
    /\ deb_calls' = Append(EndLatest(deb_calls, "superseded", deb_now),
                           [args |-> args, at |-> deb_now, status |-> "pending",
                            endAt |-> deb_now, invocations |-> 0,
                            afterCancel |-> deb_cancel # <<>>])
    /\ deb_cancel' = <<>>
    /\ UNCHANGED <<deb_state, deb_ms, deb_now, deb_fn>>
    /\ UNCHANGED <<lruVars, memoVars, filterVars, mapVars, thrVars,
                   onceVars, swVars, objVars>>

DebouncedCancel ==
    /\ deb_state = "ready"
    /\ LET r == debounced_cancel(deb_timer, deb_timers)
       IN  /\ deb_timer' = r.timer
           /\ deb_timers' = r.timers
    /\ deb_calls' = EndLatest(deb_calls, "cancelled", deb_now)
    /\ deb_cancel' = <<Len(deb_fn)>>
    /\ UNCHANGED <<deb_state, deb_ms, deb_nextId, deb_now, deb_fn>>
    /\ UNCHANGED <<lruVars, memoVars, filterVars, mapVars, thrVars,
                   onceVars, swVars, objVars>>

\* The callback of a timer that is due: timer = undefined; fn(...args).
DebounceTimeout ==
    /\ \E t \in deb_timers :
        /\ t.due <= deb_now
        /\ deb_timers' = deb_timers \ {t}
        /\ deb_timer' = 0
        /\ deb_fn' = Append(deb_fn, [args |-> t.args, at |-> deb_now, call |-> t.call])
        /\ deb_calls' =
              [deb_calls EXCEPT
                 ![t.call] = [@ EXCEPT !.invocations = @ + 1,
                                       !.status = IF @ = "pending" THEN "invoked" ELSE @,
                                       !.endAt = IF deb_calls[t.call].status = "pending"
                                                 THEN deb_now ELSE @]]
    /\ UNCHANGED <<deb_state, deb_ms, deb_nextId, deb_now, deb_cancel>>
    /\ UNCHANGED <<lruVars, memoVars, filterVars, mapVars, thrVars,
                   onceVars, swVars, objVars>>

\* A millisecond passes.
DebounceTick ==
    /\ deb_state = "ready"
    /\ deb_now < MaxTime
    /\ \A t \in deb_timers : t.due > deb_now
    /\ deb_now' = deb_now + 1
    /\ UNCHANGED <<deb_state, deb_ms, deb_timer, deb_timers, deb_nextId, deb_calls,
                   deb_fn, deb_cancel>>
    /\ UNCHANGED <<lruVars, memoVars, filterVars, mapVars, thrVars,
                   onceVars, swVars, objVars>>

----------------------------------------------------------------------------
(* Throttle *)

\* throttled(...args) at Date.now() = now.
throttled(lastCall, timer, timers, nextId, now, ms, args, call) ==
    LET remaining == ms - (now - lastCall) IN
    IF remaining <= 0
    THEN [lastCall |-> now, timer |-> 0, timers |-> clearTimeout(timers, timer),
          nextId |-> nextId, invoked |-> TRUE]
    ELSE IF timer = 0
    THEN [lastCall |-> lastCall, timer |-> nextId,
          timers |-> setTimeout(timers, nextId, now, remaining, args, call),
          nextId |-> nextId + 1, invoked |-> FALSE]
    ELSE [lastCall |-> lastCall, timer |-> timer, timers |-> timers,
          nextId |-> nextId, invoked |-> FALSE]

throttledTimeout_keepsLastCall(lastCall, now) == [lastCall |-> lastCall, timer |-> 0]

\* The callback of the timer: lastCall = Date.now(); timer = undefined; fn(...args).
throttledTimeout(lastCall, now) == [lastCall |-> now, timer |-> 0]

ThrottleInit ==
    /\ thr_state = "new"
    /\ thr_ms = 0
    /\ thr_lastCall = 0
    /\ thr_timer = 0
    /\ thr_timers = {}
    /\ thr_nextId = 1
    /\ thr_now = 0
    /\ thr_calls = 0
    /\ thr_lastArgs = ""
    /\ thr_fn = <<>>

\* Throttle(fn, ms)
Throttle(ms) ==
    /\ thr_state = "new"
    /\ thr_state' = "ready"
    /\ thr_ms' = ms
    /\ thr_lastCall' = 0
    /\ thr_timer' = 0
    /\ UNCHANGED <<thr_timers, thr_nextId, thr_now, thr_calls, thr_lastArgs, thr_fn>>
    /\ UNCHANGED <<lruVars, memoVars, filterVars, mapVars, debVars,
                   onceVars, swVars, objVars>>

ThrottledCall(args) ==
    /\ thr_state = "ready"
    /\ thr_calls < MaxCalls
    /\ LET r == throttled(thr_lastCall, thr_timer, thr_timers, thr_nextId, thr_now,
                          thr_ms, args, thr_calls + 1)
       IN  /\ thr_lastCall' = r.lastCall
           /\ thr_timer' = r.timer
           /\ thr_timers' = r.timers
           /\ thr_nextId' = r.nextId
           /\ thr_fn' = IF r.invoked
                        THEN Append(thr_fn, [args |-> args, at |-> thr_now, by |-> "call",
                                             latest |-> args])
                        ELSE thr_fn
    /\ thr_calls' = thr_calls + 1
    /\ thr_lastArgs' = args
    /\ UNCHANGED <<thr_state, thr_ms, thr_now>>
    /\ UNCHANGED <<lruVars, memoVars, filterVars, mapVars, debVars,
                   onceVars, swVars, objVars>>

ThrottleTimeout ==
    /\ \E t \in thr_timers :
        /\ t.due <= thr_now
        /\ thr_timers' = thr_timers \ {t}
        /\ LET r == throttledTimeout(thr_lastCall, thr_now)
           IN  /\ thr_lastCall' = r.lastCall
               /\ thr_timer' = r.timer
        /\ thr_fn' = Append(thr_fn, [args |-> t.args, at |-> thr_now, by |-> "timer",
                                     latest |-> thr_lastArgs])
    /\ UNCHANGED <<thr_state, thr_ms, thr_nextId, thr_now, thr_calls, thr_lastArgs>>
    /\ UNCHANGED <<lruVars, memoVars, filterVars, mapVars, debVars,
                   onceVars, swVars, objVars>>

\* A millisecond passes on the clock and for the timers.
ThrottleTick ==
    /\ thr_state = "ready"
    /\ thr_now < MaxTime
    /\ \A t \in thr_timers : t.due > thr_now
    /\ thr_now' = thr_now + 1
    /\ UNCHANGED <<thr_state, thr_ms, thr_lastCall, thr_timer, thr_timers, thr_nextId,
                   thr_calls, thr_lastArgs, thr_fn>>
    /\ UNCHANGED <<lruVars, memoVars, filterVars, mapVars, debVars,
                   onceVars, swVars, objVars>>

----------------------------------------------------------------------------
(* Once *)

MaxOnceCalls == 4

\* The arguments the wrapped function is called with.
OnceArgs == {"'a'", "'b'", "'c'", "'boom'"}

\* fn(arg): throws for 'boom'; otherwise increments the counter and returns
\* a value made of its argument and the counter.
OnceFn(arg, counter) ==
    IF arg = "'boom'"
    THEN [threw |-> TRUE, value |-> undefined, counter |-> counter]
    ELSE [threw |-> FALSE, value |-> arg \o "#" \o ToString(counter + 1),
          counter |-> counter + 1]

once_noFlag(called, result, counter, arg) ==
    LET r == OnceFn(arg, counter) IN
    [called |-> FALSE, result |-> IF r.threw THEN result ELSE r.value,
     counter |-> r.counter, invoked |-> TRUE, threw |-> r.threw,
     ret |-> IF r.threw THEN undefined ELSE r.value]

\* once(...args): called is set before fn is invoked, result after it returns.
once(called, result, counter, arg) ==
    IF ~called
    THEN LET r == OnceFn(arg, counter) IN
         [called |-> TRUE, result |-> IF r.threw THEN result ELSE r.value,
          counter |-> r.counter, invoked |-> TRUE, threw |-> r.threw,
          ret |-> IF r.threw THEN undefined ELSE r.value]
    ELSE [called |-> called, result |-> result, counter |-> counter,
          invoked |-> FALSE, threw |-> FALSE, ret |-> result]

OnceInit ==
    /\ once_state = "new"
    /\ once_called = FALSE
    /\ once_result = undefined
    /\ once_counter = 0
    /\ once_fn = <<>>
    /\ once_log = <<>>

\* Once(fn)
Once ==
    /\ once_state = "new"
    /\ once_state' = "ready"
    /\ once_called' = FALSE
    /\ once_result' = undefined
    /\ UNCHANGED <<once_counter, once_fn, once_log>>
    /\ UNCHANGED <<lruVars, memoVars, filterVars, mapVars, debVars, thrVars, swVars, objVars>>

OnceCall(arg) ==
    /\ once_state = "ready"
    /\ Len(once_log) < MaxOnceCalls
    /\ LET r == once(once_called, once_result, once_counter, arg) IN
        /\ once_called' = r.called
        /\ once_result' = r.result
        /\ once_counter' = r.counter
        /\ once_fn' = IF r.invoked THEN Append(once_fn, arg) ELSE once_fn
        /\ once_log' = Append(once_log, [arg |-> arg, threw |-> r.threw, ret |-> r.ret])
    /\ UNCHANGED once_state
    /\ UNCHANGED <<lruVars, memoVars, filterVars, mapVars, debVars, thrVars, swVars, objVars>>

----------------------------------------------------------------------------
(* Stopwatch.  An entry is its timestamp; its index is its place in _times. *)

MaxEntries == 3

\* new ElapsedTime(milliseconds)
ElapsedTime(milliseconds) ==
    [TotalMilliseconds |-> IF milliseconds < 0 THEN -milliseconds ELSE milliseconds,
     IsNegative |-> milliseconds < 0]

\* get First / get Latest: <<>> stands for undefined.
Stopwatch_First(times) == IF Len(times) = 0 THEN <<>> ELSE <<times[1]>>

Stopwatch_Latest(times) == IF Len(times) = 0 THEN <<>> ELSE <<times[Len(times)]>>

\* get Running
Stopwatch_Running(times, pausedAt) == Stopwatch_First(times) # <<>> /\ pausedAt = <<>>

\* get Elapsed, read when Date.now() is current
Stopwatch_Elapsed(times, pausedAt, current) ==
    IF Stopwatch_Latest(times) = <<>> THEN ElapsedTime(0)
    ELSE IF Stopwatch_First(times) = <<>> THEN ElapsedTime(0)
    ELSE IF pausedAt # <<>> THEN ElapsedTime(pausedAt[1] - Stopwatch_First(times)[1])
    ELSE ElapsedTime(current - Stopwatch_First(times)[1])

Stopwatch_Start(times, pausedAt, current) ==
    IF Stopwatch_Latest(times) # <<>>
    THEN [times |-> times, pausedAt |-> pausedAt]
    ELSE [times |-> Append(times, current), pausedAt |-> <<>>]

Stopwatch_Stop(times, pausedAt, current) ==
    IF Stopwatch_Latest(times) = <<>>
    THEN [times |-> times, pausedAt |-> pausedAt]
    ELSE IF pausedAt = <<>>
    THEN [times |-> Append(times, current), pausedAt |-> <<current>>]
    ELSE [times |-> times, pausedAt |-> pausedAt]

Stopwatch_Pause(times, pausedAt, current) ==
    IF Stopwatch_Latest(times) = <<>>
    THEN [times |-> times, pausedAt |-> pausedAt]
    ELSE [times |-> times, pausedAt |-> <<current>>]

Stopwatch_Resume(times, pausedAt, current) ==
    IF pausedAt = <<>>
    THEN [times |-> times, pausedAt |-> pausedAt]
    ELSE [times |-> Append(times, current), pausedAt |-> <<>>]

\* Click(), and Lap(), which calls Click() and returns a difference.
Stopwatch_Click(times, pausedAt, current) ==
    [times |-> Append(times, current),
     pausedAt |-> IF Len(times) = 0 THEN <<>> ELSE pausedAt]

Stopwatch_Reset(times, pausedAt) == [times |-> <<>>, pausedAt |-> <<>>]

Elapsed == Stopwatch_Elapsed(sw_times, sw_pausedAt, sw_now).TotalMilliseconds

StopwatchInit ==
    /\ sw_state = "new"
    /\ sw_times = <<>>
    /\ sw_pausedAt = <<>>
    /\ sw_now = 0
    /\ sw_frozenBy = "none"
    /\ sw_stop = <<>>
    /\ sw_resume = <<>>

\* new Stopwatch(startImmediately)
Stopwatch(startImmediately) ==
    /\ sw_state = "new"
    /\ sw_state' = "ready"
    /\ LET r == IF startImmediately
                THEN Stopwatch_Start(<<>>, <<>>, sw_now)
                ELSE [times |-> <<>>, pausedAt |-> <<>>]
       IN  sw_times' = r.times /\ sw_pausedAt' = r.pausedAt
    /\ UNCHANGED <<sw_now, sw_frozenBy, sw_stop, sw_resume>>
    /\ UNCHANGED <<lruVars, memoVars, filterVars, mapVars, debVars, thrVars, onceVars, objVars>>

Start ==
    /\ sw_state = "ready"
    /\ LET r == Stopwatch_Start(sw_times, sw_pausedAt, sw_now)
       IN  sw_times' = r.times /\ sw_pausedAt' = r.pausedAt
    /\ UNCHANGED <<sw_state, sw_now, sw_frozenBy, sw_stop, sw_resume>>
    /\ UNCHANGED <<lruVars, memoVars, filterVars, mapVars, debVars, thrVars, onceVars, objVars>>

Stop ==
    /\ sw_state = "ready"
    /\ Len(sw_times) < MaxEntries
    /\ LET r == Stopwatch_Stop(sw_times, sw_pausedAt, sw_now)
           wasRunning == Stopwatch_Running(sw_times, sw_pausedAt)
       IN  /\ sw_times' = r.times
           /\ sw_pausedAt' = r.pausedAt
           /\ sw_frozenBy' = IF wasRunning THEN "Stop" ELSE sw_frozenBy
           /\ sw_stop' = IF wasRunning THEN <<sw_now>> ELSE sw_stop
    /\ sw_resume' = <<>>
    /\ UNCHANGED <<sw_state, sw_now>>
    /\ UNCHANGED <<lruVars, memoVars, filterVars, mapVars, debVars, thrVars, onceVars, objVars>>

Pause ==
    /\ sw_state = "ready"
    /\ LET r == Stopwatch_Pause(sw_times, sw_pausedAt, sw_now)
           wasRunning == Stopwatch_Running(sw_times, sw_pausedAt)
       IN  /\ sw_times' = r.times
           /\ sw_pausedAt' = r.pausedAt
           /\ sw_frozenBy' = IF wasRunning THEN "Pause" ELSE sw_frozenBy
    /\ sw_resume' = <<>>
    /\ UNCHANGED <<sw_state, sw_now, sw_stop>>
    /\ UNCHANGED <<lruVars, memoVars, filterVars, mapVars, debVars, thrVars, onceVars, objVars>>

Resume ==
    /\ sw_state = "ready"
    /\ Len(sw_times) < MaxEntries
    /\ LET r == Stopwatch_Resume(sw_times, sw_pausedAt, sw_now)
       IN  sw_times' = r.times /\ sw_pausedAt' = r.pausedAt
    /\ IF sw_pausedAt = <<>>
       THEN UNCHANGED <<sw_resume, sw_frozenBy, sw_stop>>
       ELSE /\ sw_resume' = IF sw_frozenBy = "Pause" THEN <<Elapsed, sw_now>> ELSE <<>>
            /\ sw_frozenBy' = "none"
            /\ sw_stop' = <<>>
    /\ UNCHANGED <<sw_state, sw_now>>
    /\ UNCHANGED <<lruVars, memoVars, filterVars, mapVars, debVars, thrVars, onceVars, objVars>>

Click ==
    /\ sw_state = "ready"
    /\ Len(sw_times) < MaxEntries
    /\ LET r == Stopwatch_Click(sw_times, sw_pausedAt, sw_now)
       IN  sw_times' = r.times /\ sw_pausedAt' = r.pausedAt
    /\ UNCHANGED <<sw_state, sw_now, sw_frozenBy, sw_stop, sw_resume>>
    /\ UNCHANGED <<lruVars, memoVars, filterVars, mapVars, debVars, thrVars, onceVars, objVars>>

\* Lap() changes the state as the Click() it calls does.
Lap ==
    /\ sw_state = "ready"
    /\ Len(sw_times) < MaxEntries
    /\ LET r == Stopwatch_Click(sw_times, sw_pausedAt, sw_now)
       IN  sw_times' = r.times /\ sw_pausedAt' = r.pausedAt
    /\ UNCHANGED <<sw_state, sw_now, sw_frozenBy, sw_stop, sw_resume>>
    /\ UNCHANGED <<lruVars, memoVars, filterVars, mapVars, debVars, thrVars, onceVars, objVars>>

Reset ==
    /\ sw_state = "ready"
    /\ LET r == Stopwatch_Reset(sw_times, sw_pausedAt)
       IN  sw_times' = r.times /\ sw_pausedAt' = r.pausedAt
    /\ sw_frozenBy' = "none"
    /\ sw_stop' = <<>>
    /\ sw_resume' = <<>>
    /\ UNCHANGED <<sw_state, sw_now>>
    /\ UNCHANGED <<lruVars, memoVars, filterVars, mapVars, debVars, thrVars, onceVars, objVars>>

\* A millisecond passes.
StopwatchTick ==
    /\ sw_state = "ready"
    /\ sw_now < MaxTime
    /\ sw_now' = sw_now + 1
    /\ UNCHANGED <<sw_state, sw_times, sw_pausedAt, sw_frozenBy, sw_stop, sw_resume>>
    /\ UNCHANGED <<lruVars, memoVars, filterVars, mapVars, debVars, thrVars, onceVars, objVars>>

----------------------------------------------------------------------------
(* Structural values: the arguments of ObjectEquals, ObjectHash,            *)
(* ObjectHasCircularReference, ObjectClone, ObjectMerge, ObjectDiff and      *)
(* ObjectFlatten.                                                            *)
(* A value is a record: kind is "primitive", "Date", "RegExp", "Array",      *)
(* "Object" or "cycle"; data is the primitive, the Date's getTime() or the   *)
(* RegExp's toString(); keys are the own enumerable string keys in insertion *)
(* order and items the values under them (the elements of an Array).  No     *)
(* function changes a value it is given, so an object is identified by its   *)
(* record: two records are the same reference exactly when they are equal,   *)
(* and id tells apart two objects with the same content.                     *)

Value(kind, id, data, keys, items) ==
    [kind |-> kind, id |-> id, data |-> data, keys |-> keys, items |-> items]

Primitive(v) == Value("primitive", "", v, <<>>, <<>>)

\* new Date(time); the time NaN is an Invalid Date.
DateValue(id, time) == Value("Date", id, time, <<>>, <<>>)

RegExpValue(id, text) == Value("RegExp", id, text, <<>>, <<>>)

ArrayValue(id, items) == Value("Array", id, "", <<>>, items)

ObjectValue(id, keys, items) == Value("Object", id, "", keys, items)

\* A property or element that holds the object or array n levels above
\* itself ("1": the one it is a property of), which closes a cycle.
Ancestor(n) == Value("cycle", "", n, <<>>, <<>>)

\* The value an element stands for, given the objects that hold it, innermost
\* first.
Resolve(value, stack) ==
    IF value.kind # "cycle" THEN value
    ELSE IF value.data = "1" THEN stack[1]
    ELSE stack[2]

typeofValue(v) == IF v.kind = "primitive" THEN typeof(v.data) ELSE "object"

\* a === b: primitives by value, NaN equal to nothing; objects by reference.
StrictEqualsValue(a, b) == a = b /\ ~(a.kind = "primitive" /\ a.data = NaN)

\* Object.hasOwn(obj, key) and obj[key], for an own enumerable string key.
HasOwn(obj, key) == \E i \in 1 .. Len(obj.keys) : obj.keys[i] = key

GetOwn(obj, key) ==
    IF HasOwn(obj, key)
    THEN obj.items[CHOOSE i \in 1 .. Len(obj.keys) : obj.keys[i] = key]
    ELSE Primitive(undefined)

\* ObjectEquals for values without cycles.  No value of the model has symbol
\* keys, so the symbol comparisons always pass.
RECURSIVE ObjectEqualsValue_noNaN(_, _)
ObjectEqualsValue_noNaN(a, b) ==
    IF StrictEqualsValue(a, b) THEN TRUE
    ELSE IF a.kind = "primitive" \/ b.kind = "primitive" THEN FALSE
    ELSE IF a.kind = "Date" /\ b.kind = "Date" THEN a.data = b.data /\ a.data # NaN
    ELSE IF a.kind = "RegExp" /\ b.kind = "RegExp" THEN a.data = b.data
    ELSE IF a.kind = "Array" /\ b.kind = "Array"
    THEN /\ Len(a.items) = Len(b.items)
         /\ \A i \in 1 .. Len(a.items) : ObjectEqualsValue_noNaN(a.items[i], b.items[i])
    ELSE IF (a.kind = "Array") # (b.kind = "Array") THEN FALSE
    ELSE /\ Len(a.keys) = Len(b.keys)
         /\ \A i \in 1 .. Len(a.keys) :
               /\ HasOwn(b, a.keys[i])
               /\ ObjectEqualsValue_noNaN(a.items[i], GetOwn(b, a.keys[i]))

RECURSIVE ObjectEqualsValue(_, _)
ObjectEqualsValue(a, b) ==
    IF StrictEqualsValue(a, b) THEN TRUE
    ELSE IF /\ typeofValue(a) = "number" /\ typeofValue(b) = "number"
            /\ a.data = NaN /\ b.data = NaN
    THEN TRUE
    ELSE IF \/ a = Primitive(null) \/ b = Primitive(null)
            \/ a = Primitive(undefined) \/ b = Primitive(undefined)
    THEN FALSE
    ELSE IF typeofValue(a) # typeofValue(b) THEN FALSE
    ELSE IF typeofValue(a) # "object" THEN FALSE
    \* a.getTime() === b.getTime()
    ELSE IF a.kind = "Date" /\ b.kind = "Date" THEN a.data = b.data /\ a.data # NaN
    \* a.toString() === b.toString()
    ELSE IF a.kind = "RegExp" /\ b.kind = "RegExp" THEN a.data = b.data
    ELSE IF a.kind = "Array" /\ b.kind = "Array"
    THEN /\ Len(a.items) = Len(b.items)
         /\ \A i \in 1 .. Len(a.items) : ObjectEqualsValue(a.items[i], b.items[i])
    ELSE IF (a.kind = "Array") # (b.kind = "Array") THEN FALSE
    \* Object.keys of a Date or a RegExp is empty.
    ELSE /\ Len(a.keys) = Len(b.keys)
         /\ \A i \in 1 .. Len(a.keys) :
               /\ HasOwn(b, a.keys[i])
               /\ ObjectEqualsValue(a.items[i], GetOwn(b, a.keys[i]))

\* detectCircular with its WeakSet seen, which is handed on from one element
\* to the next and never shrinks: [found, seen] after the call.  stack holds
\* the objects being traversed, innermost first.
RECURSIVE detectCircular(_, _, _)
RECURSIVE detectCircularEach(_, _, _)
detectCircular(value, seen, stack) ==
    LET v == Resolve(value, stack) IN
    IF typeofValue(v) # "object" \/ v = Primitive(null)
    THEN [found |-> FALSE, seen |-> seen]
    ELSE IF v \in seen THEN [found |-> TRUE, seen |-> seen]
    ELSE detectCircularEach(v.items, seen \cup {v}, <<v>> \o stack)

\* The loop over the elements of an array, or over Object.keys(value).
detectCircularEach(items, seen, stack) ==
    IF Len(items) = 0 THEN [found |-> FALSE, seen |-> seen]
    ELSE LET r == detectCircular(items[1], seen, stack) IN
         IF r.found THEN r
         ELSE detectCircularEach(Tail(items), r.seen, stack)

\* ObjectHasCircularReference on a structural value.
HasCircularReference(obj) == detectCircular(obj, {}, <<>>).found

\* Date.prototype.toISOString for the times of the model.
toISOString(time) ==
    IF time = "0" THEN "1970-01-01T00:00:00.000Z" ELSE "1970-01-01T00:00:00.001Z"

\* JSON.stringify of a value without cycles; the result undefined stands for
\* "no text".  NaN and an Invalid Date are written as null, a RegExp as {},
\* a Date as its ISO string; an undefined element of an array is written as
\* null and a property whose value is undefined is left out.
RECURSIVE JSONstringifyValue(_)
RECURSIVE JSONelements(_)
RECURSIVE JSONproperties(_, _)
JSONstringifyValue(v) ==
    IF v.kind = "primitive"
    THEN IF v.data = undefined THEN undefined ELSE JSONvalue(v.data)
    ELSE IF v.kind = "Date"
    THEN IF v.data = NaN THEN "null" ELSE "\"" \o toISOString(v.data) \o "\""
    ELSE IF v.kind = "RegExp" THEN "{}"
    ELSE IF v.kind = "Array" THEN "[" \o JSONelements(v.items) \o "]"
    ELSE "{" \o JSONproperties(v.keys, v.items) \o "}"

JSONelements(items) ==
    IF Len(items) = 0 THEN ""
    ELSE LET text == JSONstringifyValue(items[1]) IN
         (IF text = undefined THEN "null" ELSE text)
             \o (IF Len(items) > 1 THEN "," ELSE "") \o JSONelements(Tail(items))

JSONproperties(keys, items) ==
    IF Len(keys) = 0 THEN ""
    ELSE LET text == JSONstringifyValue(items[1])
             rest == JSONproperties(Tail(keys), Tail(items))
         IN  IF text = undefined THEN rest
             ELSE "\"" \o keys[1] \o "\":" \o text
                      \o (IF rest = "" THEN "" ELSE ",") \o rest

\* ObjectHash on a structural value: threw is "" when it returns.
ObjectHashValue(obj) ==
    IF HasCircularReference(obj)
    THEN [threw |-> "Cannot hash object with circular references", hash |-> ""]
    ELSE LET jsonString == JSONstringifyValue(obj) IN
         IF jsonString = undefined
         THEN [threw |-> "Cannot hash object: JSON.stringify returned undefined",
               hash |-> ""]
         ELSE [threw |-> "", hash |-> SHA256Base64(jsonString)]

\* The values compared: primitives, Dates, RegExps, and arrays and objects of
\* up to MaxItems elements, also nested in a one-element array or object.
MaxItems == 2

\* Arrays of up to MaxItems elements; objects of up to two keys, in either
\* insertion order.
ArraysOf(ids, elements) ==
    UNION {{ArrayValue(id, items) : id \in ids, items \in [1 .. n -> elements]} :
              n \in 0 .. MaxItems}

ObjectsOf(ids, elements) ==
    UNION {{ObjectValue(id, keys, items) :
               id \in ids, items \in [1 .. Len(keys) -> elements]} :
              keys \in {<<>>, <<"a">>, <<"b">>, <<"a", "b">>, <<"b", "a">>}}

StructuralValues ==
    LET ids == {"o1", "o2"}
        leaves ==
            {Primitive(p) : p \in {undefined, null, NaN, "1", "'x'"}}
                \cup {DateValue(id, time) : id \in ids, time \in {"0", NaN}}
                \cup {RegExpValue("o1", "/x/")}
        elements ==
            {Primitive("1"), Primitive(NaN), Primitive(undefined), DateValue("o1", "0")}
        inner == ArraysOf({"o1"}, elements) \cup ObjectsOf({"o1"}, elements)
        nested ==
            {ArrayValue("o1", <<v>>) : v \in inner}
                \cup {ObjectValue("o1", <<"a">>, <<v>>) : v \in inner}
    IN  leaves \cup ArraysOf(ids, elements) \cup ObjectsOf(ids, elements) \cup nested

\* ObjectEquals(a, b), for any two of the values.
ObjectEqualsCall ==
    /\ eq_op.name = "none"
    /\ \E a \in StructuralValues, b \in StructuralValues :
          eq_op' = [eq_op EXCEPT !.name = "ObjectEquals", !.a = a, !.b = b,
                                 !.ret = ObjectEqualsValue(a, b)]
    /\ UNCHANGED ob_op
    /\ UNCHANGED <<lruVars, memoVars, filterVars, mapVars, debVars, thrVars, onceVars,
                   swVars>>

\* ObjectHash(a) and ObjectHash(b) for the two values just compared.
ObjectHashCall ==
    /\ eq_op.name = "ObjectEquals"
    /\ eq_op' = [eq_op EXCEPT !.name = "ObjectHash",
                              !.hashA = ObjectHashValue(eq_op.a),
                              !.hashB = ObjectHashValue(eq_op.b)]
    /\ UNCHANGED ob_op
    /\ UNCHANGED <<lruVars, memoVars, filterVars, mapVars, debVars, thrVars, onceVars,
                   swVars>>

----------------------------------------------------------------------------
(* isPropertyKeySafe, filterDangerousKeys, ObjectClone, ObjectMerge,        *)
(* ObjectDiff, ObjectFlatten.  An object one of them creates has the id      *)
(* "new", which no argument has.                                             *)

DANGEROUS_PROPERTY_NAMES == {"__proto__", "constructor", "prototype"}

\* key.startsWith('__'), for the keys of the model.
StartsWithDunder(key) == key \in {"__proto__", "__x"}

\* Some pattern of PATH_TRAVERSAL_PATTERNS matches the key: of the keys of the
\* model, 'a%00' (the URL-encoded null byte).
MatchesTraversalPattern(key) == key \in {"a%00"}

isPropertyKeySafe(key) ==
    IF key \in DANGEROUS_PROPERTY_NAMES THEN FALSE
    ELSE IF StartsWithDunder(key) THEN FALSE
    ELSE IF MatchesTraversalPattern(key) THEN FALSE
    ELSE TRUE

\* The own enumerable string keys of a value: the indices, for an array.
OwnKeys(v) ==
    IF v.kind = "Array" THEN [i \in 1 .. Len(v.items) |-> ToString(i - 1)] ELSE v.keys

\* filterDangerousKeys: a new object with the safe own keys of obj and the
\* values obj has under them.
filterDangerousKeys(obj) ==
    LET keys == OwnKeys(obj)
        safe == SelectSeq([i \in 1 .. Len(keys) |-> i], LAMBDA i : isPropertyKeySafe(keys[i]))
    IN  ObjectValue("new", [j \in 1 .. Len(safe) |-> keys[safe[j]]],
                    [j \in 1 .. Len(safe) |-> obj.items[safe[j]]])

CircularReferenceDetected ==
    "ObjectClone: Circular reference detected, cannot clone object with circular references"

TypeNotSupported == "Unable to copy obj! Its type is not supported"

\* ObjectClone with its WeakSet visited, handed on from one element to the
\* next and never shrinking: threw is "" and ret the clone when it returns.
\* obj.constructor === Object holds for a plain object without an own key
\* 'constructor'.
RECURSIVE ObjectClone(_, _, _)
RECURSIVE ObjectCloneEach(_, _, _)
ObjectClone(value, visited, stack) ==
    LET obj == Resolve(value, stack) IN
    IF obj = Primitive(null) \/ obj = Primitive(undefined)
    THEN [threw |-> "", ret |-> obj, visited |-> visited]
    ELSE IF typeofValue(obj) = "object" /\ obj \in visited
    THEN [threw |-> CircularReferenceDetected, ret |-> Primitive(undefined),
          visited |-> visited]
    ELSE LET marked == IF typeofValue(obj) = "object" THEN visited \cup {obj}
                       ELSE visited
         IN
         IF obj.kind = "Date"
         THEN [threw |-> "", ret |-> DateValue("new", obj.data), visited |-> marked]
         ELSE IF obj.kind = "Array"
         THEN LET r == ObjectCloneEach(obj.items, marked, <<obj>> \o stack) IN
              [threw |-> r.threw, ret |-> ArrayValue("new", r.items),
               visited |-> r.visited]
         ELSE IF obj.kind = "Object" /\ ~HasOwn(obj, "constructor")
         THEN LET safeObj == filterDangerousKeys(obj)
                  r == ObjectCloneEach(safeObj.items, marked, <<obj>> \o stack)
              IN  [threw |-> r.threw, ret |-> ObjectValue("new", safeObj.keys, r.items),
                   visited |-> r.visited]
         ELSE IF obj.kind = "primitive"
         THEN [threw |-> "", ret |-> obj, visited |-> marked]
         ELSE [threw |-> TypeNotSupported, ret |-> Primitive(undefined),
               visited |-> marked]

\* obj.map(...) and Object.keys(safeObj).forEach(...): the clones of the
\* elements in order, up to the first one that throws.
ObjectCloneEach(items, visited, stack) ==
    IF Len(items) = 0 THEN [threw |-> "", items |-> <<>>, visited |-> visited]
    ELSE LET first == ObjectClone(items[1], visited, stack) IN
         IF first.threw # ""
         THEN [threw |-> first.threw, items |-> <<>>, visited |-> first.visited]
         ELSE LET rest == ObjectCloneEach(Tail(items), first.visited, stack) IN
              [threw |-> rest.threw, items |-> <<first.ret>> \o rest.items,
               visited |-> rest.visited]

\* !x is false: the falsy values of the model are undefined, null and NaN.
Truthy(v) == ~(v.kind = "primitive" /\ v.data \in {undefined, null, NaN})

\* obj[key] = value on an object created by a literal: in place for an own
\* key, else appended.  Under the key '__proto__', which no such object has
\* as an own key, the assignment runs the setter of Object.prototype, which
\* creates no own property.
SetOwn(obj, key, value) ==
    IF HasOwn(obj, key)
    THEN [obj EXCEPT !.items =
             [i \in 1 .. Len(obj.keys) |-> IF obj.keys[i] = key THEN value
                                          ELSE obj.items[i]]]
    ELSE IF key = "__proto__" THEN obj
    ELSE [obj EXCEPT !.keys = Append(obj.keys, key), !.items = Append(obj.items, value)]

\* { ...target }: a new object with the own enumerable properties of target.
Spread(target) == ObjectValue("new", OwnKeys(target), target.items)

\* ObjectMerge, for values without cycles.
RECURSIVE ObjectMerge(_, _)
RECURSIVE ObjectMergeKeys(_, _, _)
ObjectMerge(target, source) ==
    IF ~Truthy(target) \/ typeofValue(target) # "object" THEN target
    ELSE IF ~Truthy(source) \/ typeofValue(source) # "object" THEN target
    ELSE ObjectMergeKeys(Spread(target), filterDangerousKeys(source), 1)

\* Object.keys(safeSource).forEach(...), from the i-th key on.
ObjectMergeKeys(output, safeSource, i) ==
    IF i > Len(safeSource.keys) THEN output
    ELSE LET key == safeSource.keys[i]
             targetValue == GetOwn(output, key)
             sourceValue == safeSource.items[i]
             merged ==
                 IF targetValue.kind = "Array" /\ sourceValue.kind = "Array"
                 THEN ArrayValue("new", targetValue.items \o sourceValue.items)
                 ELSE IF /\ Truthy(targetValue) /\ typeofValue(targetValue) = "object"
                         /\ Truthy(sourceValue) /\ typeofValue(sourceValue) = "object"
                 THEN ObjectMerge(targetValue, sourceValue)
                 ELSE sourceValue
         IN  ObjectMergeKeys(SetOwn(output, key, merged), safeSource, i + 1)

\* new Set([...Object.keys(objA), ...Object.keys(objB)]), in iteration order.
AllKeys(objA, objB) ==
    LET keysB == OwnKeys(objB)
        fresh == SelectSeq([i \in 1 .. Len(keysB) |-> i], LAMBDA i : ~HasOwn(objA, keysB[i]))
    IN  OwnKeys(objA) \o [j \in 1 .. Len(fresh) |-> keysB[fresh[j]]]

\* ObjectDiff, for objects without cycles.
RECURSIVE ObjectDiffKeys(_, _, _, _)
ObjectDiffKeys(objA, objB, keys, result) ==
    IF Len(keys) = 0 THEN result
    ELSE LET key == keys[1]
             inA == HasOwn(objA, key)
             inB == HasOwn(objB, key)
             next ==
                 IF inA /\ ~inB
                 THEN [result EXCEPT !.removed = SetOwn(@, key, GetOwn(objA, key))]
                 ELSE IF ~inA /\ inB
                 THEN [result EXCEPT !.added = SetOwn(@, key, GetOwn(objB, key))]
                 ELSE IF JSONstringifyValue(GetOwn(objA, key))
                            # JSONstringifyValue(GetOwn(objB, key))
                 THEN [result EXCEPT !.changed =
                          SetOwn(@, key, ObjectValue("new", <<"from", "to">>,
                                     <<GetOwn(objA, key), GetOwn(objB, key)>>))]
                 ELSE result
         IN  ObjectDiffKeys(objA, objB, Tail(keys), next)

ObjectDiff(objA, objB) ==
    LET result == [added |-> ObjectValue("new", <<>>, <<>>),
                   removed |-> ObjectValue("new", <<>>, <<>>),
                   changed |-> ObjectValue("new", <<>>, <<>>)]
    IN  ObjectDiffKeys(objA, objB, AllKeys(objA, objB), result)

\* Object.assign(result, source)
RECURSIVE ObjectAssign(_, _, _)
ObjectAssign(result, source, i) ==
    IF i > Len(source.keys) THEN result
    ELSE ObjectAssign(SetOwn(result, source.keys[i], source.items[i]), source, i + 1)

\* ObjectFlatten, for objects without cycles; prefix "" is the top level.
RECURSIVE ObjectFlatten(_, _, _)
RECURSIVE ObjectFlattenKeys(_, _, _, _, _)
ObjectFlatten(obj, separator, prefix) ==
    ObjectFlattenKeys(obj, separator, prefix, 1, ObjectValue("new", <<>>, <<>>))

\* for (const key of Object.keys(obj)), from the i-th key on.
ObjectFlattenKeys(obj, separator, prefix, i, result) ==
    IF i > Len(OwnKeys(obj)) THEN result
    ELSE LET key == OwnKeys(obj)[i]
             value == obj.items[i]
             newKey == IF prefix # "" THEN prefix \o separator \o key ELSE key
             next ==
                 IF /\ value # Primitive(null)
                    /\ typeofValue(value) = "object"
                    /\ value.kind # "Array"
                    /\ value.kind # "Date"
                 THEN ObjectAssign(result, ObjectFlatten(value, separator, newKey), 1)
                 ELSE SetOwn(result, newKey, value)
         IN  ObjectFlattenKeys(obj, separator, prefix, i + 1, next)

\* The arguments of ObjectHasCircularReference, ObjectClone and ObjectHash: an
\* object or array "o2" of primitives, a Date, a RegExp and objects and
\* arrays "o1", under plain and dangerous keys; the same inner object may sit
\* in two places, and an element may hold the object around it.
CloneArgs ==
    LET keys == {"a", "__proto__", "constructor", "prototype", "__x", "a%00"}
        leaves ==
            {Primitive("1"), Primitive(undefined), DateValue("o1", "0"),
             RegExpValue("o1", "/x/"), Ancestor("1")}
        inner ==
            {ObjectValue("o1", <<>>, <<>>)}
                \cup {ObjectValue("o1", <<k>>, <<v>>) :
                         k \in keys, v \in leaves \cup {Ancestor("2")}}
                \cup {ArrayValue("o1", <<v>>) : v \in leaves \cup {Ancestor("2")}}
        elements == leaves \cup inner
    IN  {Primitive("1"), Primitive(undefined), Primitive(null), DateValue("o1", "0"),
         RegExpValue("o1", "/x/")}
            \cup {ObjectValue("o2", <<k>>, <<v>>) : k \in keys, v \in elements}
            \cup {ObjectValue("o2", <<"a", "b">>, <<v, w>>) :
                     v \in elements, w \in elements}
            \cup {ArrayValue("o2", <<v, w>>) : v \in elements, w \in elements}

\* The arguments of ObjectMerge, ObjectDiff and ObjectFlatten: objects "o3" of
\* up to two keys, also with a dangerous key.
MergeElements ==
    {Primitive("1"), Primitive(null), ArrayValue("o1", <<Primitive("1")>>),
     ArrayValue("o2", <<Primitive("'x'")>>),
     ObjectValue("o1", <<"a">>, <<Primitive("1")>>),
     ObjectValue("o2", <<"b">>, <<Primitive("'x'")>>),
     DateValue("o1", "0"), DateValue("o2", "1"), RegExpValue("o1", "/x/")}

MergeArgs ==
    ObjectsOf({"o3"}, MergeElements)
        \cup {ObjectValue("o3", <<"__proto__", "a">>, <<v, w>>) :
                 v \in MergeElements, w \in MergeElements}

FlattenArgs ==
    ObjectsOf({"o3"}, MergeElements
        \cup {ObjectValue("o1", <<"a", "b">>,
                  <<ObjectValue("o2", <<"b">>, <<v>>), Primitive("1")>>) :
                 v \in MergeElements})

\* ObjectHasCircularReference(obj)
HasCircularReferenceCall ==
    /\ ob_op.name = "none"
    /\ \E obj \in CloneArgs :
          ob_op' = [ob_op EXCEPT !.name = "ObjectHasCircularReference", !.a = obj,
                                 !.flag = HasCircularReference(obj)]
    /\ UNCHANGED eq_op
    /\ UNCHANGED <<lruVars, memoVars, filterVars, mapVars, debVars, thrVars, onceVars,
                   swVars>>

\* ObjectClone(obj)
CloneCall ==
    /\ ob_op.name = "none"
    /\ \E obj \in CloneArgs :
          LET r == ObjectClone(obj, {}, <<>>) IN
          ob_op' = [ob_op EXCEPT !.name = "ObjectClone", !.a = obj, !.ret = r.ret,
                                 !.threw = r.threw]
    /\ UNCHANGED eq_op
    /\ UNCHANGED <<lruVars, memoVars, filterVars, mapVars, debVars, thrVars, onceVars,
                   swVars>>

\* ObjectHash(obj)
HashCall ==
    /\ ob_op.name = "none"
    /\ \E obj \in CloneArgs :
          LET r == ObjectHashValue(obj) IN
          ob_op' = [ob_op EXCEPT !.name = "ObjectHash", !.a = obj,
                                 !.ret = Primitive(r.hash), !.threw = r.threw]
    /\ UNCHANGED eq_op
    /\ UNCHANGED <<lruVars, memoVars, filterVars, mapVars, debVars, thrVars, onceVars,
                   swVars>>

\* ObjectMerge(target, source)
MergeCall ==
    /\ ob_op.name = "none"
    /\ \E target \in MergeArgs, source \in MergeArgs :
          ob_op' = [ob_op EXCEPT !.name = "ObjectMerge", !.a = target, !.b = source,
                                 !.ret = ObjectMerge(target, source)]
    /\ UNCHANGED eq_op
    /\ UNCHANGED <<lruVars, memoVars, filterVars, mapVars, debVars, thrVars, onceVars,
                   swVars>>

\* ObjectDiff(objA, objB): ret is the object {added, removed, changed}.
DiffCall ==
    /\ ob_op.name = "none"
    /\ \E objA \in MergeArgs, objB \in MergeArgs :
          LET result == ObjectDiff(objA, objB) IN
          ob_op' = [ob_op EXCEPT !.name = "ObjectDiff", !.a = objA, !.b = objB,
                                 !.ret = ObjectValue("new",
                                             <<"added", "removed", "changed">>,
                                             <<result.added, result.removed,
                                               result.changed>>)]
    /\ UNCHANGED eq_op
    /\ UNCHANGED <<lruVars, memoVars, filterVars, mapVars, debVars, thrVars, onceVars,
                   swVars>>

\* ObjectFlatten(obj), with the default separator.
FlattenCall ==
    /\ ob_op.name = "none"
    /\ \E obj \in FlattenArgs :
          ob_op' = [ob_op EXCEPT !.name = "ObjectFlatten", !.a = obj,
                                 !.ret = ObjectFlatten(obj, ".", "")]
    /\ UNCHANGED eq_op
    /\ UNCHANGED <<lruVars, memoVars, filterVars, mapVars, debVars, thrVars, onceVars,
                   swVars>>

----------------------------------------------------------------------------
(* Specifications: one per component, the other components left alone *)

Init ==
    /\ LruInit
    /\ MemoInit
    /\ FilterInit
    /\ MapInit
    /\ DebounceInit
    /\ ThrottleInit
    /\ OnceInit
    /\ StopwatchInit
    /\ eq_op = [name |-> "none", a |-> Primitive(undefined), b |-> Primitive(undefined),
                ret |-> FALSE, hashA |-> [threw |-> "", hash |-> ""],
                hashB |-> [threw |-> "", hash |-> ""]]
    /\ ob_op = [name |-> "none", a |-> Primitive(undefined), b |-> Primitive(undefined),
                ret |-> Primitive(undefined), threw |-> "", flag |-> FALSE]

Next ==
    \/ \E maxSize \in ConstructorArgs : Construct(maxSize)
    \/ \E key \in LruKeys : Get(key)
    \/ \E key \in LruKeys, value \in LruValues : Set(key, value)
    \/ Clear

Spec == Init /\ [][Next]_vars

MemoNext ==
    \/ \E useKeyFn \in BOOLEAN, maxCacheSize \in MemoSizes :
          Memoize(useKeyFn, maxCacheSize)
    \/ \E obj \in MemoArgs : MemoizedCall(obj)

SpecMemo == Init /\ [][MemoNext]_vars

FilterNext ==
    \/ \E options \in FilterOptions : ObjectFilterCached(options)
    \/ \E cursor \in Cursors, filter \in Filters : CachedFilterCall(cursor, filter)

SpecFilter == Init /\ [][FilterNext]_vars

MapNext ==
    \/ \E maxCacheSize \in 0 .. MaxCacheSize : MapObjectCached(maxCacheSize)
    \/ \E cursor \in Cursors, mapper \in Mappers, mapperKey \in MapperKeys :
          CachedMapCall(cursor, mapper, mapperKey)

SpecMap == Init /\ [][MapNext]_vars

\* MapObjectCached with a cache large enough for a bucket of six entries.
SweepNext ==
    \/ MapObjectCached(SweepCacheSize)
    \/ \E call \in SweepCalls : CachedMapCall(call[1], "(_, v) => v", call[2])

SpecSweep == Init /\ [][SweepNext]_vars

DebounceNext ==
    \/ \E ms \in 1 .. MaxDelay : Debounce(ms)
    \/ \E args \in CallArgs : DebouncedCall(args)
    \/ DebouncedCancel
    \/ DebounceTimeout
    \/ DebounceTick

SpecDebounce == Init /\ [][DebounceNext]_vars

ThrottleNext ==
    \/ \E ms \in 1 .. MaxDelay : Throttle(ms)
    \/ \E args \in CallArgs : ThrottledCall(args)
    \/ ThrottleTimeout
    \/ ThrottleTick

SpecThrottle == Init /\ [][ThrottleNext]_vars

OnceNext ==
    \/ Once
    \/ \E arg \in OnceArgs : OnceCall(arg)

SpecOnce == Init /\ [][OnceNext]_vars

StopwatchNext ==
    \/ \E startImmediately \in BOOLEAN : Stopwatch(startImmediately)
    \/ Start
    \/ Stop
    \/ Pause
    \/ Resume
    \/ Click
    \/ Lap
    \/ Reset
    \/ StopwatchTick

SpecStopwatch == Init /\ [][StopwatchNext]_vars

EqualsNext ==
    \/ ObjectEqualsCall
    \/ ObjectHashCall

SpecEquals == Init /\ [][EqualsNext]_vars

\* A program that creates one of the two cached functions and calls it.
FilterOnly(options) == mc_state = "new" /\ ObjectFilterCached(options)

MapOnly(maxCacheSize) == fc_state = "new" /\ MapObjectCached(maxCacheSize)

CachedNext ==
    \/ \E options \in FilterOptions : FilterOnly(options)
    \/ \E cursor \in Cursors, filter \in Filters : CachedFilterCall(cursor, filter)
    \/ \E maxCacheSize \in 0 .. MaxCacheSize : MapOnly(maxCacheSize)
    \/ \E cursor \in Cursors, mapper \in Mappers : CachedMapCall(cursor, mapper, undefined)

SpecCached == Init /\ [][CachedNext]_vars

ObjectNext ==
    \/ HasCircularReferenceCall
    \/ CloneCall
    \/ HashCall
    \/ MergeCall
    \/ DiffCall
    \/ FlattenCall

SpecObject == Init /\ [][ObjectNext]_vars

----------------------------------------------------------------------------
(* Claims about LRUCache, checked under Spec *)

OpKey == lru_op.key
PreMap == lru_pre.map
Removed == MapKeys(PreMap) \ MapKeys(lru_map)
OthersKeepValues ==
    \A k \in (MapKeys(PreMap) \ Removed) \ {OpKey} :
        MapHas(lru_map, k) /\ MapGet(lru_map, k) = MapGet(PreMap, k)
LastEntry(m) == m[Len(m)]

\* C1: once a call has returned, size is between 0 and the capacity the
\* cache was constructed with.
C1_SizeWithinCapacity ==
    lru_state = "ready" =>
        /\ 0 <= LRUCache_size(lru_map)
        /\ LRUCache_size(lru_map) <= lru_maxSize

\* C2: a set of a new key into a cache at capacity removes exactly one entry,
\* the one least recently touched, and the other entries keep their values.
C2_EvictsLeastRecentlyTouched ==
    (lru_op.name = "set" /\ ~MapHas(PreMap, OpKey) /\ Len(PreMap) = lru_maxSize) =>
        /\ Removed = {Head(lru_pre.order)}
        /\ OthersKeepValues
        /\ MapGet(lru_map, OpKey) = lru_op.value

\* C3: a get of a key that is present returns the stored value and leaves the
\* key in the most-recently-used position, the last one to be evicted.
C3_GetHitRefreshes ==
    (lru_op.name = "get" /\ MapHas(PreMap, OpKey)) =>
        /\ lru_op.ret = MapGet(PreMap, OpKey)
        /\ Len(lru_map) = Len(PreMap)
        /\ LastEntry(lru_map) = <<OpKey, MapGet(PreMap, OpKey)>>
        /\ OthersKeepValues

\* C4: a set of a key that is present replaces its value, makes it the
\* most-recently-used entry, evicts nothing and leaves size and the other
\* keys' values unchanged, also at capacity.
C4_SetExistingKey ==
    (lru_op.name = "set" /\ MapHas(PreMap, OpKey)) =>
        /\ LastEntry(lru_map) = <<OpKey, lru_op.value>>
        /\ LRUCache_size(lru_map) = LRUCache_size(PreMap)
        /\ Removed = {}
        /\ OthersKeepValues

C4_Witness ==
    /\ lru_op.name = "set"
    /\ MapHas(PreMap, OpKey)
    /\ Len(PreMap) = lru_maxSize
    /\ Len(PreMap) >= 2
    /\ MapFirstKey(PreMap) = OpKey
    /\ MapGet(PreMap, OpKey) # lru_op.value

\* C5: a get of a key that is not present returns undefined and leaves the
\* entries, their values and their order as they were.
C5_GetMissNoEffect ==
    (lru_op.name = "get" /\ ~MapHas(PreMap, OpKey)) =>
        /\ lru_op.ret = undefined
        /\ lru_map = PreMap

C5_Witness ==
    /\ lru_op.name = "get"
    /\ ~MapHas(PreMap, OpKey)
    /\ Len(PreMap) >= 2
    /\ lru_map = PreMap

\* C6: clear leaves no entry and the capacity as it was, so that from the
\* clear on the cache holds at most its capacity while nothing is evicted.
C6_ClearEmptiesAndKeepsCapacity ==
    /\ lru_op.name = "clear" =>
            /\ LRUCache_size(lru_map) = 0
            /\ \A k \in MapKeys(PreMap) : LRUCache_get(lru_map, k).ret = undefined
    /\ lru_sinceClear = "nothing evicted" => LRUCache_size(lru_map) <= lru_maxSize

\* C7: the constructor throws for a capacity below 1 and leaves no cache;
\* for a capacity of at least 1 it yields an empty cache of that capacity.
C7_ConstructorGuard ==
    lru_op.name = "constructor" =>
        IF lru_op.arg < 1
        THEN lru_state = "threw"
        ELSE /\ lru_state = "ready"
             /\ LRUCache_size(lru_map) = 0
             /\ lru_maxSize = lru_op.arg

C7_Witness ==
    /\ lru_op.name = "constructor"
    /\ lru_op.arg = 0
    /\ lru_state = "threw"

----------------------------------------------------------------------------
(* Claims about Memoize, checked under SpecMemo *)

MemoPreCache == memo_pre.cache
MemoRemoved == MapKeys(MemoPreCache) \ MapKeys(memo_cache)

\* C8: fn is invoked once per derived key while that key's entry is in the
\* cache: a call whose key is cached returns the stored result and does not
\* invoke fn.
C8_OncePerKey ==
    /\ \A k \in MapKeys(memo_cache) : Computed(k) = 1
    /\ (memo_op.name = "call" /\ MapHas(MemoPreCache, memo_op.key)) =>
            /\ ~memo_op.invoked
            /\ memo_op.ret = MapGet(MemoPreCache, memo_op.key)
            /\ memo_cache = MemoPreCache

C8_Witness ==
    /\ memo_op.name = "call"
    /\ MapHas(MemoPreCache, memo_op.key)
    /\ memo_keyFn
    /\ memo_op.ret = 0
    /\ memo_op.obj.tag = 1
    /\ Len(memo_cache) = 2

\* C9: when the cache holds maxCacheSize entries and a call with a new key is
\* computed, the entry evicted is the least recently used one, a call served
\* from the cache counting as a use of its key.
C9_EvictsLeastRecentlyUsed ==
    (/\ memo_op.name = "call"
     /\ memo_op.invoked
     /\ memo_maxCacheSize >= 1
     /\ Len(MemoPreCache) = memo_maxCacheSize) =>
        MemoRemoved = {Head(memo_pre.order)}

----------------------------------------------------------------------------
(* Claims about ObjectFilterCached, checked under SpecFilter *)

\* A call whose cursor and filter are objects and which returned.
FilterCallReturned ==
    fc_op.name = "call" /\ fc_op.path \in {"hit", "miss", "unhashable"}

\* C10: the boolean a call of the cached filter delivers equals
\* ObjectFilter(cursor, filter, options) on that call's own arguments, whether
\* it was computed or served from the cache.
C10_CachedEqualsUncached ==
    FilterCallReturned => fc_op.ret = fc_op.uncached

\* The same statement for MapObjectCached, checked under SpecMap: the record
\* a call delivers equals MapObject(cursor, mapper) on that call's arguments.
CachedMapEqualsUncached ==
    (mc_op.name = "call" /\ mc_op.path \in {"hit", "miss", "unhashable"}) =>
        mc_op.ret = mc_op.uncached

\* C11: a call whose cursor or filter cannot be hashed does not raise; it
\* returns what ObjectFilter returns on the call's own arguments.
C11_HashFailureNeverRaises ==
    (fc_op.name = "call" /\ fc_op.path \in {"unhashable", "filter unhashable"}) =>
        /\ ~fc_op.threw
        /\ fc_op.ret = fc_op.uncached

----------------------------------------------------------------------------
(* Claims about MapObjectCached, checked under SpecMap and SpecSweep *)

\* The least whole number of entries that is at least 20% of n entries.
Ceil20Percent(n) == CHOOSE m \in 0 .. n : 5 * m >= n /\ 5 * (m - 1) < n

\* The step is the call of the cached map function with these arguments.
StepIsMapCall(cursor, mapper, mapperKey) ==
    /\ mc_op'.uncached = MapObject(cursor, mapper)
    /\ CachedMapCall(cursor, mapper, mapperKey)

\* What a call may do to the buckets: a call that inserts appends its entry
\* to its bucket; if the total then exceeds maxCacheSize, one bucket of the
\* greatest size loses its first ceil(20%) entries, and every other bucket is
\* as the insertion left it.  A call that does not insert removes nothing.
SweepOnInsertOnly(cursor, mapper, mapperKey) ==
    LET k == ResolvedMapperKey(mapper, mapperKey)
        h == ObjectHashOf[cursor]
        keys == MapKeys(mc_cache) \cup MapKeys(mc_cache') \cup {k}
        inserts == IsObject(cursor) /\ ~h.threw /\ ~MapHas(Bucket(mc_cache, k), h.hash)
        Mid(b) == IF b = k
                  THEN Append(Bucket(mc_cache, k), <<h.hash, MapObject(cursor, mapper)>>)
                  ELSE Bucket(mc_cache, b)
    IN  IF ~inserts
        THEN \A b \in keys : Bucket(mc_cache', b) = Bucket(mc_cache, b)
        ELSE IF TotalEntries(mc_cache) + 1 <= mc_maxCacheSize
        THEN \A b \in keys : Bucket(mc_cache', b) = Mid(b)
        ELSE \E s \in keys :
                /\ \A b \in keys : Len(Mid(b)) <= Len(Mid(s))
                /\ Bucket(mc_cache', s) =
                       SubSeq(Mid(s), Ceil20Percent(Len(Mid(s))) + 1, Len(Mid(s)))
                /\ \A b \in keys \ {s} : Bucket(mc_cache', b) = Mid(b)

\* C12: an insertion that takes the total over maxCacheSize is followed by
\* one sweep, which deletes the first ceil(20% of its size) entries of the
\* bucket holding the most entries and leaves every other bucket unchanged;
\* a call that does not insert sweeps nothing.
C12_SweepLargestBucket ==
    [][\A call \in SweepCalls :
          StepIsMapCall(call[1], "(_, v) => v", call[2]) =>
              SweepOnInsertOnly(call[1], "(_, v) => v", call[2])]_vars

\* A sweep has just taken two entries from a bucket of six, next to another
\* bucket that kept its entry.
C12_Witness ==
    /\ mc_op.path = "miss"
    /\ mc_op.removed = 2
    /\ Len(mc_cache) = 2
    /\ \E i \in 1 .. 2 : Len(mc_cache[i][2]) = 4
    /\ TotalEntries(mc_cache) = 5

\* C13: a call whose mapper key and object hash have an entry in the cache
\* returns that entry's result, the one the earlier call computed, and does
\* not invoke the mapper.
C13_HitSkipsMapper ==
    (mc_op.name = "call" /\ mc_op.had) =>
        /\ mc_op.ret = mc_op.stored
        /\ mc_op.mapperCalls = 0
        /\ ~mc_op.threw

\* A call was served from the cache with the result of an earlier call on an
\* object of the same hash.
C13_Witness ==
    /\ mc_op.name = "call"
    /\ mc_op.had
    /\ mc_op.ret # mc_op.uncached
    /\ Len(mc_op.ret) = 1
    /\ TotalEntries(mc_cache) = 2

----------------------------------------------------------------------------
(* Claims about Debounce, checked under SpecDebounce *)

\* The calls fn was invoked for.
InvokedCalls == {i \in 1 .. Len(deb_calls) : deb_calls[i].status = "invoked"}

C15_CancelDropsPending ==
    /\ deb_cancel # <<>> => (Len(deb_fn) = deb_cancel[1] /\ deb_timers = {})
    /\ \A i \in 1 .. Len(deb_calls) :
          LET c == deb_calls[i] IN
          /\ c.status = "cancelled" => c.invocations = 0
          /\ c.afterCancel =>
                /\ c.status = "invoked" => (c.invocations = 1 /\ c.endAt = c.at + deb_ms)
                /\ c.status = "pending" => deb_now <= c.at + deb_ms

\* A call was cancelled while pending, time passed, and fn was invoked for
\* the call that came after the cancel().
C15_Witness ==
    /\ Len(deb_calls) = 2
    /\ deb_ms > 0
    /\ deb_calls[1].status = "cancelled"
    /\ deb_calls[1].endAt > deb_calls[1].at
    /\ deb_calls[2].afterCancel
    /\ deb_calls[2].status = "invoked"
    /\ deb_fn = <<[args |-> deb_calls[2].args, at |-> deb_calls[2].at + deb_ms, call |-> 2]>>

----------------------------------------------------------------------------
(* Claims about Throttle, checked under SpecThrottle *)

\* C16: two successive invocations of fn are at least ms milliseconds apart
\* on the clock.
C16_AtMostOncePerInterval ==
    \A i \in 1 .. (Len(thr_fn) - 1) : thr_fn[i + 1].at - thr_fn[i].at >= thr_ms

\* An invocation by a call, then one by the timer, then one by a call again.
C16_Witness ==
    /\ Len(thr_fn) = 3
    /\ thr_fn[1].by = "call"
    /\ thr_fn[2].by = "timer"
    /\ thr_fn[3].by = "call"
    /\ thr_fn[3].at - thr_fn[2].at = thr_ms

\* C17: the invocation that follows a burst of suppressed calls carries the
\* arguments of the last call of the burst.
C17_TrailingCallHasLastArgs ==
    \A i \in 2 .. Len(thr_fn) :
        thr_fn[i].by = "timer" => thr_fn[i].args = thr_fn[i].latest

----------------------------------------------------------------------------
(* Claims about Once, checked under SpecOnce *)

\* C18: fn is invoked at most once, by the first call and with its argument,
\* and every call, the first and the later ones, returns the value that
\* invocation returned.
C18_InvokedOnceResultKept ==
    /\ Len(once_fn) <= 1
    /\ Len(once_log) >= 1 => once_fn = <<once_log[1].arg>>
    /\ (Len(once_log) >= 1 /\ ~once_log[1].threw) =>
          /\ once_log[1].ret = OnceFn(once_log[1].arg, 0).value
          /\ \A i \in 1 .. Len(once_log) :
                ~once_log[i].threw /\ once_log[i].ret = once_log[1].ret

\* Four calls with three different arguments, all returning what fn returned
\* for the first.
C18_Witness ==
    /\ Len(once_log) = 4
    /\ once_log[1].arg = "'a'"
    /\ once_log[2].arg = "'b'"
    /\ once_log[3].arg = "'boom'"
    /\ once_log[4].ret = "'a'#1"
    /\ once_counter = 1

----------------------------------------------------------------------------
(* Claims about Stopwatch, checked under SpecStopwatch *)

\* C19: from the Stop() of a running stopwatch until a Resume() or Reset(),
\* Elapsed is the stop timestamp minus the first entry's timestamp, whatever
\* the clock reads and whatever Stop, Pause, Click or Lap calls follow.
C19_ElapsedFrozenAfterStop ==
    sw_stop # <<>> => Elapsed = sw_stop[1] - sw_times[1]

\* C20: after the Resume() that follows a Pause() of a running stopwatch,
\* Elapsed is the value it was frozen at plus the time passed since the
\* Resume().
C20_ResumeContinuesFromPause ==
    sw_resume # <<>> => Elapsed = sw_resume[1] + (sw_now - sw_resume[2])

\* C21: ObjectEquals is reflexive and symmetric on structural values:
\* ObjectEquals(v, v) is true for every v (NaN and an Invalid Date included),
\* and ObjectEquals(a, b) is ObjectEquals(b, a) for every a and b.
C21_EqualsReflexiveSymmetric ==
    eq_op.name # "none" =>
        /\ (eq_op.a = eq_op.b => eq_op.ret)
        /\ eq_op.ret = ObjectEqualsValue(eq_op.b, eq_op.a)

\* Two distinct arrays that both hold NaN have been compared, and are equal.
C21_Witness ==
    /\ eq_op.name = "ObjectEquals"
    /\ eq_op.a = ArrayValue("o1", <<Primitive(NaN)>>)
    /\ eq_op.b = ArrayValue("o2", <<Primitive(NaN)>>)
    /\ eq_op.ret

\* C22: ObjectEquals is false whenever its operands are of different
\* categories among primitive, Date, RegExp, ordered list and keyed map.
C22_DifferentCategoriesUnequal ==
    (eq_op.name # "none" /\ eq_op.a.kind # eq_op.b.kind) => ~eq_op.ret

\* C23: two hashable values that ObjectEquals finds equal have the same
\* ObjectHash, whatever the order in which the keys of a keyed map were
\* inserted.
C23_EqualValuesHashEqually ==
    (/\ eq_op.name = "ObjectHash"
     /\ eq_op.ret
     /\ eq_op.hashA.threw = ""
     /\ eq_op.hashB.threw = "") => eq_op.hashA.hash = eq_op.hashB.hash

\* Some element of the value holds an object around it: the value has a cycle.
RECURSIVE ContainsCycle(_)
ContainsCycle(v) ==
    v.kind = "cycle" \/ \E i \in 1 .. Len(v.items) : ContainsCycle(v.items[i])

\* C24: ObjectHasCircularReference(v) is true exactly when v has a cycle, and
\* ObjectClone and ObjectHash raise their circular-reference error for exactly
\* those values; a value in which one object or Date sits in two places has
\* no cycle.
C24_CircularExactlyForCycles ==
    /\ ob_op.name = "ObjectHasCircularReference" => ob_op.flag = ContainsCycle(ob_op.a)
    /\ ob_op.name = "ObjectClone" =>
          (ob_op.threw = CircularReferenceDetected) = ContainsCycle(ob_op.a)
    /\ ob_op.name = "ObjectHash" =>
          (ob_op.threw = "Cannot hash object with circular references")
              = ContainsCycle(ob_op.a)

\* The keys the clone is said to drop: __proto__, constructor, prototype and
\* those that begin with a double underscore.
DroppedKey(key) == key \in DANGEROUS_PROPERTY_NAMES \/ StartsWithDunder(key)

\* out is a clone of in without the dropped keys and with every other key.
RECURSIVE IsFilteredClone(_, _)
IsFilteredClone(in, out) ==
    IF in.kind = "Object"
    THEN /\ out.kind = "Object"
         /\ \A j \in 1 .. Len(out.keys) : ~DroppedKey(out.keys[j]) /\ HasOwn(in, out.keys[j])
         /\ \A i \in 1 .. Len(in.keys) :
               ~DroppedKey(in.keys[i]) =>
                   /\ HasOwn(out, in.keys[i])
                   /\ IsFilteredClone(in.items[i], GetOwn(out, in.keys[i]))
    ELSE IF in.kind = "Array"
    THEN /\ out.kind = "Array"
         /\ Len(out.items) = Len(in.items)
         /\ \A i \in 1 .. Len(in.items) : IsFilteredClone(in.items[i], out.items[i])
    ELSE IF in.kind = "Date" THEN out.kind = "Date" /\ out.data = in.data
    ELSE out = in

\* C25: in the result of ObjectClone no keyed map at any depth has a key
\* __proto__, constructor or prototype or one beginning with a double
\* underscore, and every other own key of the input map is there with a clone
\* of its value.
C25_CloneDropsOnlyDangerousKeys ==
    (ob_op.name = "ObjectClone" /\ ob_op.threw = "") => IsFilteredClone(ob_op.a, ob_op.ret)

\* C26: ObjectMerge(target, source) has, under every non-dangerous key of
\* source, the target list followed by the source list when both values are
\* lists, the recursive merge when both are keyed maps, and the source value
\* in every other case; a key only target has keeps target's value.
C26_MergeByCategory ==
    ob_op.name = "ObjectMerge" =>
        /\ \A i \in 1 .. Len(ob_op.b.keys) :
              LET key == ob_op.b.keys[i]
                  targetValue == GetOwn(ob_op.a, key)
                  sourceValue == ob_op.b.items[i]
                  merged == GetOwn(ob_op.ret, key)
              IN  ~DroppedKey(key) =>
                      /\ HasOwn(ob_op.ret, key)
                      /\ IF targetValue.kind = "Array" /\ sourceValue.kind = "Array"
                         THEN /\ merged.kind = "Array"
                              /\ merged.items = targetValue.items \o sourceValue.items
                         ELSE IF targetValue.kind = "Object" /\ sourceValue.kind = "Object"
                         THEN merged = ObjectMerge(targetValue, sourceValue)
                         ELSE merged = sourceValue
        /\ \A j \in 1 .. Len(ob_op.a.keys) :
              ~HasOwn(ob_op.b, ob_op.a.keys[j]) =>
                  /\ HasOwn(ob_op.ret, ob_op.a.keys[j])
                  /\ GetOwn(ob_op.ret, ob_op.a.keys[j]) = ob_op.a.items[j]

\* C27: ObjectDiff(A, B) has a key in added exactly when only B has it (with
\* B's value), in removed exactly when only A has it (with A's value), in
\* changed exactly when both have it with different serializations (as
\* {from, to}), and no key that neither A nor B has.
C27_DiffPartitionsKeys ==
    ob_op.name = "ObjectDiff" =>
        LET objA == ob_op.a
            objB == ob_op.b
            added == ob_op.ret.items[1]
            removed == ob_op.ret.items[2]
            changed == ob_op.ret.items[3]
            union == {objA.keys[i] : i \in 1 .. Len(objA.keys)}
                         \cup {objB.keys[i] : i \in 1 .. Len(objB.keys)}
            reported == {added.keys[i] : i \in 1 .. Len(added.keys)}
                            \cup {removed.keys[i] : i \in 1 .. Len(removed.keys)}
                            \cup {changed.keys[i] : i \in 1 .. Len(changed.keys)}
        IN  /\ reported \subseteq union
            /\ \A key \in union :
                  LET inA == HasOwn(objA, key)
                      inB == HasOwn(objB, key)
                  IN  /\ HasOwn(added, key) = (~inA /\ inB)
                      /\ HasOwn(added, key) => GetOwn(added, key) = GetOwn(objB, key)
                      /\ HasOwn(removed, key) = (inA /\ ~inB)
                      /\ HasOwn(removed, key) => GetOwn(removed, key) = GetOwn(objA, key)
                      /\ HasOwn(changed, key) =
                            (/\ inA /\ inB
                             /\ JSONstringifyValue(GetOwn(objA, key))
                                    # JSONstringifyValue(GetOwn(objB, key)))
                      /\ HasOwn(changed, key) =>
                            /\ GetOwn(GetOwn(changed, key), "from") = GetOwn(objA, key)
                            /\ GetOwn(GetOwn(changed, key), "to") = GetOwn(objB, key)

\* The objects, arrays and Dates reachable from a value.
RECURSIVE References(_)
References(v) ==
    IF v.kind \in {"primitive", "cycle"} THEN {}
    ELSE {v} \cup UNION {References(v.items[i]) : i \in 1 .. Len(v.items)}

\* C28: no object, array or Date reachable from the result of ObjectClone,
\* ObjectMerge or ObjectFlatten is one that is reachable from an argument.
C28_ResultSharesNothing ==
    (ob_op.name \in {"ObjectClone", "ObjectMerge", "ObjectFlatten"} /\ ob_op.threw = "")
        => References(ob_op.ret) \cap (References(ob_op.a) \cup References(ob_op.b)) = {}

\* C29: after every call of a cached filter or cached map function the entry
\* counter is the number of entries in all buckets together, and that number
\* is at most maxCacheSize.
C29_CounterIsTotalWithinMax ==
    /\ fc_state = "ready" =>
          /\ fc_totalCachedEntries = TotalEntries(fc_cache)
          /\ TotalEntries(fc_cache) <= fc_options.maxCacheSize
    /\ mc_state = "ready" =>
          /\ mc_totalCachedEntries = TotalEntries(mc_cache)
          /\ TotalEntries(mc_cache) <= mc_maxCacheSize

\* A sweep has brought a full cache of the largest size back to its maximum.
C29_Witness ==
    /\ mc_op.path = "miss"
    /\ mc_op.removed = 1
    /\ mc_maxCacheSize = MaxCacheSize
    /\ mc_totalCachedEntries = mc_maxCacheSize

\* The outcomes of a call that bypasses the cache.
BypassPaths == {"invalid cursor", "invalid filter", "filter unhashable", "unhashable"}

\* C30: a call of a cached filter or cached map function that bypasses the
\* cache leaves the buckets, their entries and the entry counter as they
\* were.
C30_BypassLeavesCacheUnchanged ==
    [][/\ (fc_state = "ready" /\ fc_op'.path \in BypassPaths) =>
              (fc_cache' = fc_cache /\ fc_totalCachedEntries' = fc_totalCachedEntries)
       /\ (mc_state = "ready" /\ mc_op'.path \in BypassPaths) =>
              (mc_cache' = mc_cache /\ mc_totalCachedEntries' = mc_totalCachedEntries)]_vars

====
